---- MODULE Spec2Model ----
(***************************************************************************)
(* The action queue and execution state machine of ActionRunner            *)
(* (app/lib/runtime/action-runner.ts).                                     *)
(*                                                                         *)
(* The promise chain #currentExecutionPromise is modelled by `links` (one  *)
(* entry per execution appended by runAction; the promise P_n of link n is *)
(* the promise after its .catch) and by `reactions` (the .then callbacks   *)
(* registered on those promises that have not run yet).  P_0 is the        *)
(* initial Promise.resolve().                                              *)
(*                                                                         *)
(* The module also holds the task delegation of SubagentManager            *)
(* (app/lib/agents/SubagentManager.ts: delegateTask, delegateTasks,        *)
(* cancelTask, agent scoring), the summary of TestAgent.createReport, the  *)
(* TestRunner (app/lib/runtime/test-runner.ts), the four test agents'      *)
(* execute, the ErrorMonitor (app/lib/runtime/error-monitor.ts), the       *)
(* TestFeedbackParser and the build action of ActionRunner.                *)
(* Each component has its own specification (Spec and, with fairness,      *)
(* LiveSpec; MgrSpec, ScoreSpec, ParallelSpec, BatchSpec, ReportSpec,      *)
(* TestRunnerSpec, AgentSpec, MonitorSpec,                                 *)
(* FeedbackSpec, BuildSpec); the variables of the other components keep    *)
(* the values they have after construction.                                *)
(***************************************************************************)
EXTENDS Integers, Sequences, FiniteSets, TLC

\* ---------------------------------------------------------------- bounds
MaxActions == 2     \* distinct actionIds the caller uses
MaxStream == 1      \* runAction(isStreaming=true) calls that reach the chain
MaxContent == 1     \* distinct contents a caller streams for one action

\* ---------------------------------------------------------------- data
ActionIds == {<<i, "">> : i \in 1..MaxActions}

\* `${buildActionId}-autotest`
autotestId(id) == <<id[1], "-autotest">>

Keys == ActionIds \cup {autotestId(id) : id \in ActionIds}

ActionTypes == {"file", "shell", "start", "build", "supabase", "test"}

ActionStatus == {"pending", "running", "complete", "aborted", "failed"}

Contents == 0..MaxContent

VARIABLES
  actions,     \* this.actions: actionId -> ActionState
  links,       \* the executions chained on #currentExecutionPromise, in call order
  reactions,   \* .then callbacks registered on the chain and not run yet
  procs,       \* the detached #runStartAction promise of each start action
  alerts,      \* the onAlert calls, per action that raised them
  startLog,    \* link indices in the order #executeAction was entered
  lastCall,    \* the public call made by the last step, or how the operation
               \* that settled in the last step ended
  testReports, \* ActionRunner.testReports: actionId -> summary.total of the report
  testRunner   \* #testRunner: the actionId its onTestComplete closure captured

runnerVars ==
  <<actions, links, reactions, procs, alerts, startLog, lastCall, testReports, testRunner>>

\* no actionId (an unset #testRunner, a step that is no public call)
NoId == <<0, "">>

\* the content of an execution that has not started
NotRun == -1

NoCall == [op |-> "internal", id |-> NoId, isStreaming |-> FALSE]

Call(op, id, s) == [op |-> op, id |-> id, isStreaming |-> s]

\* ---------------------------------------------------------------- helpers
\* #updateAction: { ...actions[id], ...newState }
updateAction(acts, id, newState) ==
  [acts EXCEPT ![id] =
     [f \in DOMAIN acts[id] |-> IF f \in DOMAIN newState THEN newState[f] ELSE acts[id][f]]]

\* the entry addAction stores
NewActionState(type, content) ==
  [type |-> type, content |-> content, status |-> "pending",
   executed |-> FALSE, aborted |-> FALSE, error |-> ""]

Alert(al, k, type, title) ==
  [al EXCEPT ![k] = Append(@, [type |-> type, title |-> title])]

\* state of the promise P_n that link n leaves in #currentExecutionPromise
PromiseState(n) ==
  IF n = 0 THEN "resolved"
  ELSE IF links[n].state \in {"resolved", "rejected"} THEN links[n].state
  ELSE "pending"

\* this.#currentExecutionPromise at the time of a call
ChainTailDetached(ls) == 0
ChainTail(ls) == Len(ls)

\* promise.then(cb): cb runs once the promise has settled, after the
\* callbacks registered on the same promise before it
FireableUnordered(p) == TRUE
Fireable(p) ==
  /\ PromiseState(reactions[p].on) # "pending"
  /\ \A q \in 1..(p - 1) : reactions[q].on # reactions[p].on

\* .catch((error) => console.error(...)) at the end of every link
ChainCatchRethrow(outcome) == outcome
ChainCatch(outcome) == "resolved"

RemoveAt(s, p) == SubSeq(s, 1, p - 1) \o SubSeq(s, p + 1, Len(s))

StreamCount == Cardinality({n \in DOMAIN links : links[n].isStreaming})

\* ---------------------------------------------------------------- Init
RunnerInit ==
  /\ actions = [k \in {} |-> NewActionState("file", 0)]
  /\ links = <<>>
  /\ reactions = <<>>
  /\ procs = [id \in ActionIds |-> [state |-> "none", abortedAtThrow |-> FALSE]]
  /\ alerts = [k \in Keys |-> <<>>]
  /\ startLog = <<>>
  /\ lastCall = NoCall
  /\ testReports = [k \in {} |-> 0]
  /\ testRunner = NoId

\* ---------------------------------------------------------------- addAction
AlreadyAddedNever(acts, id) == FALSE
AlreadyAdded(acts, id) == id \in DOMAIN acts

\* Only a file's content grows while it is streamed; the other action types
\* are re-emitted with the content they were declared with.
addAction(id, type, content) ==
  /\ type # "file" => content = 0
  /\ lastCall' = Call("addAction", id, FALSE)
  /\ UNCHANGED <<testReports, testRunner>>
  /\ IF AlreadyAdded(actions, id)
       THEN UNCHANGED <<actions, reactions>>
       ELSE /\ actions' = [k \in DOMAIN actions \cup {id} |->
                             IF k = id THEN NewActionState(type, content) ELSE actions[k]]
            /\ reactions' = Append(reactions,
                 [kind |-> "running", id |-> id, on |-> ChainTail(links), link |-> 0])
  /\ UNCHANGED <<links, procs, alerts, startLog>>

\* the abort() closure addAction stores in the action
abortAll(id) ==
  /\ id \in DOMAIN actions
  /\ lastCall' = Call("abort", id, FALSE)
  /\ UNCHANGED <<testReports, testRunner>>
  /\ actions' = [k \in DOMAIN actions |->
                   [actions[k] EXCEPT !.aborted = TRUE, !.status = "aborted"]]
  /\ UNCHANGED <<links, reactions, procs, alerts, startLog>>
abort(id) ==
  /\ id \in DOMAIN actions
  /\ lastCall' = Call("abort", id, FALSE)
  /\ UNCHANGED <<testReports, testRunner>>
  /\ actions' = updateAction([actions EXCEPT ![id].aborted = TRUE], id, [status |-> "aborted"])
  /\ UNCHANGED <<links, reactions, procs, alerts, startLog>>

\* this.#currentExecutionPromise.then(() => this.#updateAction(actionId, { status: 'running' }))
thenRunning(p) ==
  /\ p \in DOMAIN reactions
  /\ reactions[p].kind = "running"
  /\ Fireable(p)
  /\ reactions' = RemoveAt(reactions, p)
  /\ actions' = IF PromiseState(reactions[p].on) = "resolved"
                  THEN updateAction(actions, reactions[p].id, [status |-> "running"])
                  ELSE actions
  /\ lastCall' = NoCall
  /\ UNCHANGED <<testReports, testRunner>>
  /\ UNCHANGED <<links, procs, alerts, startLog>>

\* ---------------------------------------------------------------- runAction
AlreadyExecutedNever(action) == FALSE
AlreadyExecuted(action) == action.executed

SkipStreamingNever(action, isStreaming) == FALSE
SkipStreaming(action, isStreaming) == isStreaming /\ action.type # "file"

runAction(id, content, isStreaming) ==
  /\ id \in DOMAIN actions
  /\ actions[id].type # "file" => content = actions[id].content
  /\ isStreaming => StreamCount < MaxStream
  /\ lastCall' = Call("runAction", id, isStreaming)
  /\ UNCHANGED <<testReports, testRunner>>
  /\ IF AlreadyExecuted(actions[id]) \/ SkipStreaming(actions[id], isStreaming)
       THEN UNCHANGED <<actions, links, reactions>>
       ELSE /\ actions' = updateAction(actions, id,
                            [content |-> content, executed |-> ~isStreaming])
            /\ links' = Append(links,
                 [id |-> id, isStreaming |-> isStreaming, state |-> "queued",
                  abortedAtThrow |-> FALSE, written |-> NotRun])
            /\ reactions' = Append(reactions,
                 [kind |-> "execute", id |-> id, on |-> ChainTail(links),
                  link |-> Len(links) + 1])
  /\ UNCHANGED <<procs, alerts, startLog>>

\* ---------------------------------------------------------------- #executeAction
\* how the awaited operation of each action type can settle:
\* ok, cmderr (ActionCommandError) or err (any other exception)
Outcomes(type) ==
  CASE type = "shell" -> {"ok", "cmderr", "err"}
    [] type = "file" -> {"ok", "err"}
    [] type = "supabase" -> {"ok", "err"}
    [] type = "build" -> {"ok", "cmderr", "err"}
    [] type = "test" -> {"ok", "err"}
    [] type = "start" -> {"ok", "cmderr", "err"}

\* status: isStreaming ? 'running' : action.abortSignal.aborted ? 'aborted' : 'complete'
FinalStatusIgnoringStream(action, isStreaming) ==
  IF action.aborted THEN "aborted" ELSE "complete"
FinalStatus(action, isStreaming) ==
  IF isStreaming THEN "running" ELSE IF action.aborted THEN "aborted" ELSE "complete"

\* the start case returns after the delay and never reaches the final status update
StartFallThrough(action) == FinalStatus(action, FALSE)
StartReturnStatus(action) == action.status

\* .then(() => this.#executeAction(actionId, isStreaming)): entry of
\* #executeAction up to its first await
executeAction(p) ==
  /\ p \in DOMAIN reactions
  /\ reactions[p].kind = "execute"
  /\ Fireable(p)
  /\ reactions' = RemoveAt(reactions, p)
  /\ lastCall' = NoCall
  /\ UNCHANGED <<testReports, testRunner>>
  /\ LET n == reactions[p].link
         id == links[n].id
         type == actions[id].type
     IN IF PromiseState(reactions[p].on) = "rejected"
          THEN /\ links' = [links EXCEPT ![n].state = ChainCatch("rejected")]
               /\ UNCHANGED <<actions, procs, alerts, startLog>>
          ELSE /\ actions' = updateAction(actions, id, [status |-> "running"])
               /\ startLog' = Append(startLog, n)
               \* const action = this.actions.get()[actionId]: the operation works
               \* on the content the map holds when the execution starts
               /\ links' = [links EXCEPT ![n].state =
                                           IF type = "start" THEN "delay" ELSE "exec",
                                         ![n].written = actions[id].content]
               /\ procs' = IF type = "start"
                             THEN [procs EXCEPT ![id].state = "running"]
                             ELSE procs
               /\ alerts' = IF type = "test"
                              THEN Alert(alerts, id, "info", "Testing")
                              ELSE alerts

\* error instanceof ActionCommandError
instanceofActionCommandErrorAlways(outcome) == TRUE
instanceofActionCommandError(outcome) == outcome = "cmderr"

\* the catch block of #executeAction; sets the status and the link's outcome
CatchBlock(n, outcome, acts, al) ==
  LET id == links[n].id
      action == acts[id]
  IN IF action.aborted
       THEN /\ actions' = acts
            /\ alerts' = al
            /\ links' = [links EXCEPT ![n].state = ChainCatch("resolved"),
                                      ![n].abortedAtThrow = TRUE]
       ELSE /\ actions' = updateAction(acts, id,
                            [status |-> "failed", error |-> "Action failed"])
            /\ alerts' = IF instanceofActionCommandError(outcome)
                           THEN Alert(al, id, "error", "Dev Server Failed")
                           ELSE al
            /\ links' = [links EXCEPT
                           ![n].state = IF instanceofActionCommandError(outcome)
                                          THEN ChainCatch("rejected")
                                          ELSE ChainCatch("resolved")]

\* #runTestAction: if (!this.#testRunner) this.#testRunner = new TestRunner({...,
\* onTestComplete: (report) => this.testReports.set(actionId, report)})
lazyTestRunner(captured, actionId) == IF captured = NoId THEN actionId ELSE captured

\* this.actions of the TestRunner: it extends ActionRunner, so it has a map of
\* its own, and nothing calls addAction on it
TestRunnerActions == {}

\* BrowserTestAgent.execute: the six fixed tests, then the SEO and the image
\* test when the action's config asks for them
BrowserTests == 6
browserReportTotal(checkSEO, checkImages) ==
  BrowserTests + (IF checkSEO THEN 1 ELSE 0) + (IF checkImages THEN 1 ELSE 0)

\* TestRunner.runTestAction as seen in ActionRunner.testReports: an actionId
\* missing from the TestRunner's own map returns at 'Invalid test action';
\* otherwise the agent's report reaches onTestComplete
runTestAction(reports, captured, actionId, total) ==
  IF actionId \in TestRunnerActions
    THEN [k \in DOMAIN reports \cup {captured} |-> IF k = captured THEN total ELSE reports[k]]
    ELSE reports

\* the awaited operation of a shell, file, supabase, build or test action settles
opSettles(n, outcome) ==
  /\ n \in DOMAIN links
  /\ links[n].state = "exec"
  /\ lastCall' = Call(outcome, links[n].id, links[n].isStreaming)
  /\ LET id == links[n].id
     IN IF actions[id].type = "test"
          THEN \* TestRunner.runTestAction catches whatever it throws, so a test
               \* action raises only before the try of #runTestAction, when the
               \* import or the construction of the TestRunner fails
               /\ outcome = "err" => testRunner = NoId
               /\ testRunner' = IF outcome = "ok"
                                  THEN lazyTestRunner(testRunner, id)
                                  ELSE testRunner
               /\ testReports' = IF outcome = "ok"
                                   THEN runTestAction(testReports, testRunner', id,
                                                      browserReportTotal(FALSE, FALSE))
                                   ELSE testReports
          ELSE UNCHANGED <<testReports, testRunner>>
  /\ LET id == links[n].id
         action == actions[id]
         type == action.type
     IN /\ outcome \in Outcomes(type)
        /\ IF outcome = "ok"
             THEN IF type = "build"
                    THEN \* #runAutomatedTests up to the await of #runTestAction
                         /\ actions' = [k \in DOMAIN actions \cup {autotestId(id)} |->
                                          IF k = autotestId(id)
                                            THEN NewActionState("test", 0)
                                            ELSE actions[k]]
                         /\ alerts' = Alert(Alert(alerts, id, "info", "Running Automated Tests"),
                                            autotestId(id), "info", "Testing")
                         /\ links' = [links EXCEPT ![n].state = "autotest"]
                    ELSE /\ actions' = updateAction(actions, id,
                                         [status |-> FinalStatus(action, links[n].isStreaming)])
                         /\ links' = [links EXCEPT ![n].state = ChainCatch("resolved")]
                         /\ UNCHANGED alerts
             ELSE IF type = "supabase"
                    THEN \* inner catch of the supabase case: no test of abortSignal
                         /\ actions' = updateAction(actions, id,
                                         [status |-> "failed", error |-> "Supabase action failed"])
                         /\ links' = [links EXCEPT ![n].state = ChainCatch("resolved"),
                                                   ![n].abortedAtThrow = action.aborted]
                         /\ UNCHANGED alerts
                    ELSE CatchBlock(n, outcome, actions, alerts)
  /\ UNCHANGED <<reactions, procs, startLog>>

\* #runAutomatedTests: the awaited #runTestAction of the autotest settles,
\* then the build case breaks to the final status update
autotestSettles(n, outcome) ==
  /\ n \in DOMAIN links
  /\ links[n].state = "autotest"
  /\ outcome \in {"ok", "err"}
  /\ lastCall' = NoCall
  /\ LET id == links[n].id
     IN /\ actions' = updateAction(actions, id,
                        [status |-> FinalStatus(actions[id], links[n].isStreaming)])
        /\ outcome = "err" => testRunner = NoId
        /\ testRunner' = IF outcome = "ok"
                           THEN lazyTestRunner(testRunner, autotestId(id))
                           ELSE testRunner
        \* config: { checkSEO: true, checkImages: true }
        /\ testReports' = IF outcome = "ok"
                            THEN runTestAction(testReports, testRunner', autotestId(id),
                                               browserReportTotal(TRUE, TRUE))
                            ELSE testReports
        /\ alerts' = IF outcome = "err"
                       THEN Alert(alerts, id, "error", "Test Execution Failed")
                       ELSE IF autotestId(id) \in DOMAIN testReports'
                              THEN Alert(alerts, id, "success", "All Tests Passed")
                              ELSE alerts
        /\ links' = [links EXCEPT ![n].state = ChainCatch("resolved")]
  /\ UNCHANGED <<reactions, procs, startLog>>

\* start case: await new Promise((resolve) => setTimeout(resolve, 2000)); return
delayElapsed(n) ==
  /\ n \in DOMAIN links
  /\ links[n].state = "delay"
  /\ lastCall' = NoCall
  /\ UNCHANGED <<testReports, testRunner>>
  /\ actions' = updateAction(actions, links[n].id,
                  [status |-> StartReturnStatus(actions[links[n].id])])
  /\ links' = [links EXCEPT ![n].state = ChainCatch("resolved")]
  /\ UNCHANGED <<reactions, procs, alerts, startLog>>

\* #handleCompilationErrors as seen in the alerts: the report goes to
\* onCompilationError when it is set, to the fallback alert otherwise
handleCompilationErrorsAsFailure(al, id, compilation) ==
  Alert(al, id, "error", "Dev Server Failed")
handleCompilationErrors(al, id, compilation) ==
  IF compilation = "alert"
    THEN Alert(al, id, "error", "Compilation Error Detected")
    ELSE al

\* start case: #runStartAction settles, then the .then / .catch handlers on
\* the detached promise. compilation tells whether shell.lastDetectedErrors
\* was empty ("none") when the start command resolved and, if not, where the
\* report went; a throw before the command resolved has "none"
startSettles(id, outcome, compilation) ==
  /\ id \in DOMAIN actions
  /\ procs[id].state = "running"
  /\ outcome \in Outcomes("start")
  /\ compilation \in {"none", "callback", "alert"}
  /\ outcome = "err" => compilation = "none"
  /\ lastCall' = Call(outcome, id, FALSE)
  /\ UNCHANGED <<testReports, testRunner>>
  /\ procs' = [procs EXCEPT ![id] =
                 [state |-> "done",
                  abortedAtThrow |-> (outcome # "ok" /\ actions[id].aborted)]]
  /\ LET al == handleCompilationErrors(alerts, id, compilation)
     IN IF outcome = "ok"
          THEN /\ actions' = updateAction(actions, id, [status |-> "complete"])
               /\ alerts' = al
          ELSE IF actions[id].aborted
                 THEN /\ UNCHANGED actions
                      /\ alerts' = al
                 ELSE /\ actions' = updateAction(actions, id,
                                      [status |-> "failed", error |-> "Action failed"])
                      /\ alerts' = IF instanceofActionCommandError(outcome)
                                     THEN Alert(al, id, "error", "Dev Server Failed")
                                     ELSE al
  /\ UNCHANGED <<links, reactions, startLog>>

\* ================================================================ SubagentManager
\* (app/lib/agents/SubagentManager.ts)
MaxTaskIds == 2       \* distinct task ids the callers of delegateTask use
MaxDelegations == 2   \* tasks delegated by callers that reuse task ids
MaxScored == 3        \* tasks delegated by callers that give every task its own id
MaxBatch == 6         \* tasks in the input of delegateTasks
MaxParallel == 6      \* delegateTask calls of callers that do not wait for each other

\* private maxConcurrentTasks: number = 5
maxConcurrentTasks == 5

TaskIds == 1..MaxTaskIds

\* a task is told apart by what the agents' canHandle reads of it (type and
\* description) and by what calculateAgentScore reads of it (priority)
TaskKinds == {"backend", "frontend", "fullstack", "other"}

Priorities == {"medium", "high", "critical"}

SingleTasks == [id : TaskIds, kind : TaskKinds, priority : Priorities]

\* this.agents in registration (Map insertion) order
Agents == <<"NodeBackendAgent", "FrontendAgent">>

\* findSuitableAgent returning null
NoAgent == ""

VARIABLES
  delegations,    \* the TaskDelegation objects created so far, in creation order
  activeTasks,    \* this.activeTasks: task id -> index in delegations
  completedTasks, \* this.completedTasks: indices in delegations, in push order
  mgrCall,        \* the public call made by the last step, with what it returned
  scores,         \* the scores findSuitableAgent computed in the last step
  batch           \* the delegateTasks call in progress

mgrVars == <<delegations, activeTasks, completedTasks, mgrCall, scores, batch>>

\* a SubagentResult, or the promise of one
PendingResult == [state |-> "pending", success |-> FALSE, errors |-> 0]

Fulfilled(success, errors) == [state |-> "fulfilled", success |-> success, errors |-> errors]

Rejected == [state |-> "rejected", success |-> FALSE, errors |-> 0]

\* for cancelTask, ret.success is the boolean it returned
NoMgrCall == [op |-> "internal", id |-> 0, kind |-> "other", priority |-> "medium",
              agent |-> NoAgent, ret |-> PendingResult]

NoScores == [a \in {} |-> [num |-> 0, den |-> 1]]

\* no delegateTasks call yet.  tasks: its input; chunks: chunkArray of it;
\* current: the chunk being awaited; slots: per task started, the index of its
\* delegation (0 when delegateTask found no agent); results: the results array
NoBatch == [tasks |-> <<>>, chunks |-> <<>>, current |-> 0, slots |-> <<>>,
            results |-> <<>>, state |-> "idle"]

ManagerInit ==
  /\ delegations = <<>>
  /\ activeTasks = [id \in {} |-> 0]
  /\ completedTasks = <<>>
  /\ mgrCall = NoMgrCall
  /\ scores = NoScores
  /\ batch = NoBatch

\* NodeBackendAgent.canHandle / FrontendAgent.canHandle
canHandleAnything(agent, task) == TRUE
canHandle(agent, task) ==
  CASE agent = "NodeBackendAgent" -> task.kind \in {"backend", "fullstack"}
    [] agent = "FrontendAgent" -> task.kind \in {"frontend", "fullstack"}

\* scores are fractions: successRate is completed / agentTasks.length
ScoreLess(a, b) == a.num * b.den < b.num * a.den

ScoreEq(a, b) == a.num * b.den = b.num * a.den

priorityBoost(priority) ==
  IF priority = "critical" THEN 30 ELSE IF priority = "high" THEN 20 ELSE 0

calculateAgentScoreIgnoringLoad(agent, task, dels, act, comp) ==
  [num |-> 100 + priorityBoost(task.priority), den |-> 1]
calculateAgentScoreBoostWhenIdle(agent, task, dels, act, comp) ==
  LET isBusy == \E id \in DOMAIN act : dels[act[id]].agent = agent
      agentTasks == {p \in DOMAIN comp : dels[comp[p]].agent = agent}
      completed == {p \in agentTasks : dels[comp[p]].status = "completed"}
      n == Cardinality(agentTasks)
      flat == IF isBusy THEN 80 ELSE 100 + priorityBoost(task.priority)
  IN IF n > 0
       THEN [num |-> flat * n + 20 * Cardinality(completed), den |-> n]
       ELSE [num |-> flat, den |-> 1]
calculateAgentScore(agent, task, dels, act, comp) ==
  LET isBusy == \E id \in DOMAIN act : dels[act[id]].agent = agent
      agentTasks == {p \in DOMAIN comp : dels[comp[p]].agent = agent}
      completed == {p \in agentTasks : dels[comp[p]].status = "completed"}
      n == Cardinality(agentTasks)
      flat == 100 - (IF isBusy THEN 20 ELSE 0) + priorityBoost(task.priority)
  IN IF n > 0
       THEN [num |-> flat * n + 20 * Cardinality(completed), den |-> n]
       ELSE [num |-> flat, den |-> 1]

\* the agents findSuitableAgent scores, in iteration order
suitableAgents(task) == SelectSeq(Agents, LAMBDA a : canHandle(a, task))

\* suitableAgents.sort((a, b) => b.score - a.score)[0]: the sort is stable, so
\* among the agents of highest score the first in iteration order comes first
findFirstCapable(task, dels, act, comp) ==
  IF suitableAgents(task) = <<>> THEN NoAgent ELSE suitableAgents(task)[1]
findSuitableAgent(task, dels, act, comp) ==
  LET suitable == suitableAgents(task)
      score(i) == calculateAgentScore(suitable[i], task, dels, act, comp)
      best == CHOOSE i \in DOMAIN suitable :
                /\ \A j \in DOMAIN suitable : ~ScoreLess(score(i), score(j))
                /\ \A j \in 1..(i - 1) : ScoreLess(score(j), score(i))
  IN IF suitable = <<>> THEN NoAgent ELSE suitable[best]

\* the scores of one findSuitableAgent call
scoresOf(task, dels, act, comp) ==
  [a \in {suitableAgents(task)[i] : i \in DOMAIN suitableAgents(task)} |->
     calculateAgentScore(a, task, dels, act, comp)]

\* const delegation = { task, agent: agentInfo.name, status: 'running', startTime }
\* `outcome` is how agent.execute(task) settled, `result` what delegateTask returned
newDelegation(task, agent) ==
  [id |-> task.id, agent |-> agent, status |-> "running",
   ended |-> FALSE, outcome |-> "pending", result |-> PendingResult]

MapSet(m, k, v) == [x \in DOMAIN m \cup {k} |-> IF x = k THEN v ELSE m[x]]

MapDelete(m, k) == [x \in DOMAIN m \ {k} |-> m[x]]

\* return { ..., success: false, errors: ['No suitable agent found for this task type'] }
NoAgentResult == Fulfilled(FALSE, 1)

\* delegateTask(task) up to its await of agent.execute(task)
delegateTask(task) ==
  LET agent == findSuitableAgent(task, delegations, activeTasks, completedTasks)
  IN /\ scores' = scoresOf(task, delegations, activeTasks, completedTasks)
     /\ IF agent = NoAgent
          THEN /\ mgrCall' = [op |-> "delegateTask", id |-> task.id,
                              kind |-> task.kind,
                              priority |-> task.priority, agent |-> NoAgent,
                              ret |-> NoAgentResult]
               /\ UNCHANGED <<delegations, activeTasks, completedTasks>>
          ELSE /\ delegations' = Append(delegations, newDelegation(task, agent))
               /\ activeTasks' = MapSet(activeTasks, task.id, Len(delegations) + 1)
               /\ mgrCall' = [op |-> "delegateTask", id |-> task.id,
                              kind |-> task.kind,
                              priority |-> task.priority, agent |-> agent,
                              ret |-> PendingResult]
               /\ UNCHANGED completedTasks

\* what delegateTask returns once execute has settled: the agent's result, or
\* the result its catch block builds from the error
catchRethrow(error) == Rejected
catch(error) == Fulfilled(FALSE, 1)

delegateResult(outcome) ==
  CASE outcome = "success" -> Fulfilled(TRUE, 0)
    [] outcome = "failure" -> Fulfilled(FALSE, 0)
    [] outcome = "throw" -> catch(outcome)

\* delegateTask after its await: agent.execute(task) resolved with a result
\* (success or not) or threw
settle(dels, act, comp, i, outcome) ==
  [delegations |->
     [dels EXCEPT ![i].status = IF outcome = "success" THEN "completed" ELSE "failed",
                  ![i].ended = TRUE,
                  ![i].outcome = outcome,
                  ![i].result = delegateResult(outcome)],
   activeTasks |-> MapDelete(act, dels[i].id),
   completedTasks |-> Append(comp, i)]

executeSettles(i, outcome) ==
  /\ i \in DOMAIN delegations
  /\ delegations[i].outcome = "pending"
  /\ outcome \in {"success", "failure", "throw"}
  /\ LET after == settle(delegations, activeTasks, completedTasks, i, outcome)
     IN /\ delegations' = after.delegations
        /\ activeTasks' = after.activeTasks
        /\ completedTasks' = after.completedTasks
  /\ mgrCall' = NoMgrCall
  /\ scores' = NoScores

\* cancelTask(taskId): boolean
cancelTaskAnywhere(taskId) ==
  /\ \E i \in DOMAIN delegations :
       /\ delegations[i].id = taskId
       /\ delegations' = [delegations EXCEPT ![i].status = "failed", ![i].ended = TRUE]
       /\ completedTasks' = Append(completedTasks, i)
  /\ activeTasks' = MapDelete(activeTasks, taskId)
  /\ mgrCall' = [op |-> "cancelTask", id |-> taskId, kind |-> "other",
                 priority |-> "medium", agent |-> NoAgent, ret |-> Fulfilled(TRUE, 0)]
  /\ scores' = NoScores
cancelTask(taskId) ==
  /\ IF taskId \in DOMAIN activeTasks
       THEN LET i == activeTasks[taskId]
            IN /\ delegations' = [delegations EXCEPT ![i].status = "failed",
                                                     ![i].ended = TRUE]
               /\ activeTasks' = MapDelete(activeTasks, taskId)
               /\ completedTasks' = Append(completedTasks, i)
               /\ mgrCall' = [op |-> "cancelTask", id |-> taskId, kind |-> "other",
                              priority |-> "medium", agent |-> NoAgent,
                              ret |-> Fulfilled(TRUE, 0)]
       ELSE /\ mgrCall' = [op |-> "cancelTask", id |-> taskId, kind |-> "other",
                           priority |-> "medium", agent |-> NoAgent,
                           ret |-> Fulfilled(FALSE, 0)]
            /\ UNCHANGED <<delegations, activeTasks, completedTasks>>
  /\ scores' = NoScores

\* ---------------------------------------------------------------- delegateTasks
\* for (let i = 0; i < array.length; i += size) chunks.push(array.slice(i, i + size))
chunkArrayOneMore(array, size) ==
  [c \in 1..((Len(array) + size) \div (size + 1)) |->
     SubSeq(array, (c - 1) * (size + 1) + 1,
            IF c * (size + 1) < Len(array) THEN c * (size + 1) ELSE Len(array))]
chunkArray(array, size) ==
  [c \in 1..((Len(array) + size - 1) \div size) |->
     SubSeq(array, (c - 1) * size + 1,
            IF c * size < Len(array) THEN c * size ELSE Len(array))]

\* the inputs of delegateTasks: n numbered tasks, all for the backend agent but
\* (when other > 0) the one at position `other`, which no agent handles
BatchTasks(n, other) ==
  [p \in 1..n |-> [id |-> p, kind |-> IF p = other THEN "other" ELSE "backend",
                   priority |-> "medium"]]

\* one delegateTask(task) of chunk.map(task => this.delegateTask(task)), up to
\* its await
startTask(st, task) ==
  LET agent == findSuitableAgent(task, st.delegations, st.activeTasks, completedTasks)
  IN IF agent = NoAgent
       THEN [st EXCEPT !.slots = Append(@, 0)]
       ELSE [delegations |-> Append(st.delegations, newDelegation(task, agent)),
             activeTasks |-> MapSet(st.activeTasks, task.id, Len(st.delegations) + 1),
             slots |-> Append(st.slots, Len(st.delegations) + 1)]

RECURSIVE startChunk(_, _)
startChunk(st, chunk) ==
  IF chunk = <<>> THEN st ELSE startChunk(startTask(st, Head(chunk)), Tail(chunk))

\* the promise delegateTask(task) returned for the task at position p
taskResult(b, dels, p) ==
  IF b.slots[p] = 0 THEN NoAgentResult ELSE dels[b.slots[p]].result

\* positions of the input that chunk c holds
RECURSIVE chunkStart(_, _)
chunkStart(chunks, c) == IF c = 1 THEN 1 ELSE chunkStart(chunks, c - 1) + Len(chunks[c - 1])

chunkPositions(chunks, c) == chunkStart(chunks, c)..(chunkStart(chunks, c) + Len(chunks[c]) - 1)

\* Promise.all(chunk.map(...)): settles once every promise has; the results
\* come in the order of the chunk, each tagged here with its taskId
promiseAll(b, dels, c) ==
  [k \in 1..Len(b.chunks[c]) |->
     LET p == chunkStart(b.chunks, c) + k - 1
     IN [taskId |-> b.tasks[p].id, result |-> taskResult(b, dels, p)]]

\* delegateTasks(tasks) up to its first await
delegateTasks(tasks) ==
  /\ batch.state = "idle"
  /\ delegations = <<>>
  /\ LET chunks == chunkArray(tasks, maxConcurrentTasks)
     IN IF chunks = <<>>
          THEN /\ batch' = [tasks |-> tasks, chunks |-> chunks, current |-> 0,
                            slots |-> <<>>, results |-> <<>>, state |-> "done"]
               /\ UNCHANGED <<delegations, activeTasks>>
          ELSE LET st == startChunk([delegations |-> delegations,
                                     activeTasks |-> activeTasks, slots |-> <<>>],
                                    chunks[1])
               IN /\ batch' = [tasks |-> tasks, chunks |-> chunks, current |-> 1,
                               slots |-> st.slots, results |-> <<>>, state |-> "running"]
                  /\ delegations' = st.delegations
                  /\ activeTasks' = st.activeTasks
  /\ mgrCall' = [op |-> "delegateTasks", id |-> 0, kind |-> "other", priority |-> "medium",
                 agent |-> NoAgent, ret |-> PendingResult]
  /\ scores' = NoScores
  /\ UNCHANGED completedTasks

\* delegateTasks after await Promise.all(...) of the current chunk:
\* results.push(...chunkResults), then the next chunk is started or results returned
chunkResolved(c) ==
  /\ batch.state = "running"
  /\ c = batch.current
  /\ \A p \in chunkPositions(batch.chunks, c) :
       taskResult(batch, delegations, p).state # "pending"
  /\ LET chunkResults == promiseAll(batch, delegations, c)
     IN IF \E k \in DOMAIN chunkResults : chunkResults[k].result.state = "rejected"
          THEN /\ batch' = [batch EXCEPT !.state = "rejected"]
               /\ UNCHANGED <<delegations, activeTasks>>
          ELSE IF c = Len(batch.chunks)
                 THEN /\ batch' = [batch EXCEPT !.results = @ \o chunkResults,
                                                !.state = "done"]
                      /\ UNCHANGED <<delegations, activeTasks>>
                 ELSE LET st == startChunk([delegations |-> delegations,
                                            activeTasks |-> activeTasks,
                                            slots |-> batch.slots],
                                           batch.chunks[c + 1])
                      IN /\ batch' = [batch EXCEPT !.results = @ \o chunkResults,
                                                   !.current = c + 1,
                                                   !.slots = st.slots]
                         /\ delegations' = st.delegations
                         /\ activeTasks' = st.activeTasks
  /\ mgrCall' = NoMgrCall
  /\ scores' = NoScores
  /\ UNCHANGED completedTasks

\* ================================================================ TestRunner
\* (app/lib/runtime/test-runner.ts) used on its own: test actions are
\* registered in its actions map with the addAction it inherits
MaxTests == 2         \* distinct actionIds registered in the TestRunner
MaxRuns == 2          \* runTestAction calls that find their action

TestIds == {<<i, "">> : i \in 1..MaxTests}

\* `${actionId}-feedback`
feedbackId(id) == <<id[1], "-feedback">>

\* TestAction.testType
TestTypes == {"browser", "api", "accessibility", "performance", "unit", "backend"}

\* the agents initializeAgents registers, in its order
TestAgents == <<"BrowserTestAgent", "ApiTestAgent", "A11yTestAgent", "PerformanceTestAgent">>

VARIABLES
  trActions,   \* this.actions of the TestRunner: actionId -> state
  trAgents,    \* this.agents: the agent names registered so far, in order
  trMicro,     \* the continuations of the TestRunner waiting in the microtask queue
  trRuns       \* the runTestAction calls that found their action, in call order

trVars == <<trActions, trAgents, trMicro, trRuns>>

Micro(kind, n) == [kind |-> kind, n |-> n]

\* after new TestRunner(options): the constructor has called initializeAgents(),
\* which waits in its first `await agent.initialize()`
TestRunnerInit ==
  /\ trActions = [k \in {} |-> [type |-> "test", testType |-> "browser",
                                status |-> "pending", executed |-> FALSE]]
  /\ trAgents = <<>>
  /\ trMicro = <<Micro("init", 1)>>
  /\ trRuns = <<>>

\* BrowserTestAgent / ApiTestAgent / A11yTestAgent / PerformanceTestAgent .canHandle
testAgentCanHandle(agent, testType) ==
  CASE agent = "BrowserTestAgent" -> testType = "browser"
    [] agent = "ApiTestAgent" -> testType = "api"
    [] agent = "A11yTestAgent" -> testType = "accessibility"
    [] agent = "PerformanceTestAgent" -> testType = "performance"

\* findAgent: the first registered agent whose canHandle is true; "" for undefined
findAgent(agents, testType) ==
  LET able == SelectSeq(agents, LAMBDA a : testAgentCanHandle(a, testType))
  IN IF able = <<>> THEN "" ELSE able[1]

\* the addAction a TestRunner inherits from ActionRunner, for a test action
trAddAction(id, testType) ==
  /\ id \notin DOMAIN trActions
  /\ trActions' = [k \in DOMAIN trActions \cup {id} |->
                     IF k = id
                       THEN [type |-> "test", testType |-> testType,
                             status |-> "pending", executed |-> FALSE]
                       ELSE trActions[k]]
  /\ trMicro' = Append(trMicro, Micro("running", id[1]))
  /\ UNCHANGED <<trAgents, trRuns>>

\* the head of the microtask queue runs: one step of initializeAgents
\* (this.agents.set(name, agent) after `await agent.initialize()`, then the
\* next agent's initialize), or the .then callback of addAction
trInitStep ==
  /\ trMicro # <<>>
  /\ Head(trMicro).kind = "init"
  /\ LET k == Head(trMicro).n
     IN /\ trAgents' = Append(trAgents, TestAgents[k])
        /\ trMicro' = IF k < Len(TestAgents)
                        THEN Append(Tail(trMicro), Micro("init", k + 1))
                        ELSE Tail(trMicro)
  /\ UNCHANGED <<trActions, trRuns>>

trThenRunning ==
  /\ trMicro # <<>>
  /\ Head(trMicro).kind = "running"
  /\ trActions' = [trActions EXCEPT ![<<Head(trMicro).n, "">>].status = "running"]
  /\ trMicro' = Tail(trMicro)
  /\ UNCHANGED <<trAgents, trRuns>>

\* runTestAction(data) up to `await this.#webcontainer`; an actionId that is
\* not a test action of the map returns at 'Invalid test action'
trRunTestAction(id) ==
  IF id \notin DOMAIN trActions
    THEN UNCHANGED trVars
    ELSE /\ trActions' = [trActions EXCEPT ![id].status = "running"]
         /\ trRuns' = Append(trRuns,
                        [id |-> id, state |-> "awaitContainer", agent |-> "",
                         registered |-> 0, failed |-> 0, reported |-> FALSE,
                         alerts |-> <<"info">>])
         /\ trMicro' = Append(trMicro, Micro("find", Len(trRuns) + 1))
         /\ UNCHANGED trAgents

\* the catch block of runTestAction
trCatch(r) ==
  /\ trActions' = [trActions EXCEPT ![trRuns[r].id].status = "failed"]
  /\ trRuns' = [trRuns EXCEPT ![r].state = "done",
                              ![r].registered = Len(trAgents),
                              ![r].alerts = Append(@, "error")]

\* runTestAction after `await this.#webcontainer`: findAgent, then either the
\* throw of 'No agent found for test type' or the call of agent.execute
trFindAgent ==
  /\ trMicro # <<>>
  /\ Head(trMicro).kind = "find"
  /\ trMicro' = Tail(trMicro)
  /\ LET r == Head(trMicro).n
         agent == findAgent(trAgents, trActions[trRuns[r].id].testType)
     IN IF agent = ""
          THEN trCatch(r)
          ELSE /\ trRuns' = [trRuns EXCEPT ![r].state = "executing",
                                           ![r].agent = agent,
                                           ![r].registered = Len(trAgents)]
               /\ UNCHANGED trActions
  /\ UNCHANGED trAgents

\* const hasFailures = report.summary.failed > 0
hasFailuresAlways(failed) == TRUE
hasFailures(failed) == failed > 0

\* agent.execute resolved with a report of `failed` failed results: the report
\* is stored and generateFeedback puts the feedback action in the map
trReportArrives(r, failed) ==
  /\ r \in DOMAIN trRuns
  /\ trRuns[r].state = "executing"
  /\ trRuns' = [trRuns EXCEPT ![r].state = "feedback", ![r].failed = failed,
                              ![r].reported = TRUE]
  /\ trActions' = [k \in DOMAIN trActions \cup {feedbackId(trRuns[r].id)} |->
                     IF k = feedbackId(trRuns[r].id)
                       THEN [type |-> "feedback", testType |-> "",
                             status |-> "complete", executed |-> TRUE]
                       ELSE trActions[k]]
  /\ trMicro' = Append(trMicro, Micro("finish", r))
  /\ UNCHANGED trAgents

\* runTestAction after `await this.generateFeedback(...)`: the final status
\* and the error or success alert
trFinish ==
  /\ trMicro # <<>>
  /\ Head(trMicro).kind = "finish"
  /\ trMicro' = Tail(trMicro)
  /\ LET r == Head(trMicro).n
     IN /\ trActions' = [trActions EXCEPT ![trRuns[r].id].status =
                           IF hasFailures(trRuns[r].failed) THEN "failed" ELSE "complete"]
        /\ trRuns' = [trRuns EXCEPT ![r].state = "done",
                                    ![r].alerts =
                                      Append(@, IF hasFailures(trRuns[r].failed)
                                                  THEN "error" ELSE "success")]
  /\ UNCHANGED trAgents

\* ================================================================ TestAgent.createReport
\* (app/lib/agents/base/TestAgent.ts)
MaxResults == 4       \* results in the list handed to createReport

\* the statuses the agents put in a TestResult: 'warning' comes from
\* A11yTestAgent.testHeadingStructure and PerformanceTestAgent
ResultStatus == {"passed", "failed", "skipped", "warning"}

RECURSIVE SeqsUpTo(_, _)
SeqsUpTo(S, n) ==
  IF n = 0 THEN {<<>>}
  ELSE LET shorter == SeqsUpTo(S, n - 1)
       IN shorter \cup {Append(q, x) : q \in {r \in shorter : Len(r) = n - 1}, x \in S}

VARIABLES
  results,   \* the TestResult statuses of the last createReport call
  report     \* the summary of the TestReport it returned

reportVars == <<results, report>>

ReportInit ==
  /\ results = <<>>
  /\ report = [made |-> FALSE, total |-> 0, passed |-> 0, failed |-> 0, skipped |-> 0]

\* results.filter(r => r.status === status).length
countStatus(rs, status) == Cardinality({i \in DOMAIN rs : rs[i] = status})

\* createReport(results, duration, metadata): the summary of the report
createReport(rs) ==
  /\ results' = rs
  /\ report' = [made |-> TRUE,
                total |-> Len(rs),
                passed |-> countStatus(rs, "passed"),
                failed |-> countStatus(rs, "failed"),
                skipped |-> countStatus(rs, "skipped")]

\* ================================================================ the test agents
\* (BrowserTestAgent, ApiTestAgent, A11yTestAgent, PerformanceTestAgent and
\* their base class TestAgent): one execute call, check after check
MaxEndpoints == 2     \* entries of action.config.endpoints

\* A check is its testName and what it returns, by what its fetch and the page
\* gave it: the status and the error text of its TestResult, or <<"throws",
\* message>> for an exception that leaves the check.  The outcome "throws" is
\* a rejected fetch of the preview URL or of the endpoint.
Check(testName, returns) == [testName |-> testName, returns |-> returns]

browserChecks(config) ==
  LET testPageLoad ==
        "throws" :> <<"failed", "fetch failed">> @@ "200" :> <<"passed", "">>
          @@ "404" :> <<"failed", "Page returned status 404">>
          @@ "500" :> <<"failed", "Page returned status 500">>
      testJavaScriptErrors == "none" :> <<"passed", "">>
      testBrokenLinks ==
        "throws" :> <<"skipped", "">> @@ "clean" :> <<"passed", "">>
          @@ "broken" :> <<"failed", "Found 1 broken links">>
      testFormValidation == "none" :> <<"passed", "">>
      testResponsiveness == "none" :> <<"passed", "">>
      testInteractiveElements == "none" :> <<"passed", "">>
      testSEOElements ==
        "throws" :> <<"skipped", "">> @@ "clean" :> <<"passed", "">>
          @@ "missing" :> <<"failed", "Missing SEO elements: hasTitle">>
      testImages ==
        "throws" :> <<"skipped", "">> @@ "clean" :> <<"passed", "">>
          @@ "broken" :> <<"failed", "Found 1 broken images">>
  IN <<Check("Page Load", testPageLoad),
       Check("JavaScript Errors", testJavaScriptErrors),
       Check("Broken Links", testBrokenLinks),
       Check("Form Validation", testFormValidation),
       Check("Responsiveness", testResponsiveness),
       Check("Interactive Elements", testInteractiveElements)>>
     \o (IF config.checkSEO THEN <<Check("SEO Elements", testSEOElements)>> ELSE <<>>)
     \o (IF config.checkImages THEN <<Check("Image Loading", testImages)>> ELSE <<>>)

\* an entry of config.endpoints: an object with a method and a path, or null
Endpoints ==
  {[isNull |-> FALSE, method |-> "GET", path |-> "/api/health"],
   [isNull |-> FALSE, method |-> "GET", path |-> "/api/status"],
   [isNull |-> TRUE, method |-> "", path |-> ""]}

apiChecks(config) ==
  LET \* action.config?.endpoints || the default list: an array, even an empty
      \* one, is kept
      endpoints ==
        IF config.endpoints = "array" THEN config.list
        ELSE <<[isNull |-> FALSE, method |-> "GET", path |-> "/api/health"],
               [isNull |-> FALSE, method |-> "GET", path |-> "/api/status"]>>
      \* `API ${endpoint.method} ${endpoint.path}`
      testName(endpoint) ==
        IF endpoint.path = "/api/health" THEN "API GET /api/health"
        ELSE "API GET /api/status"
      \* a null entry: endpoint.path throws in the try block and
      \* endpoint.method throws again in the catch block, so the call rejects
      testEndpoint(endpoint) ==
        IF endpoint.isNull
          THEN "none" :> <<"throws", "Cannot read properties of null (reading 'method')">>
          ELSE "throws" :> <<"failed", "fetch failed">> @@ "200" :> <<"passed", "">>
                 @@ "404" :> <<"failed", "Endpoint returned status 404">>
                 @@ "500" :> <<"failed", "Endpoint returned status 500">>
      \* rejected fetches are ignored: no timings, an average of 0
      testResponseTimes ==
        "throws" :> <<"passed", "">> @@ "fast" :> <<"passed", "">>
          @@ "slow" :> <<"failed", "Average response time 1500.00ms exceeds 1000ms threshold">>
      testErrorHandling ==
        "throws" :> <<"skipped", "">> @@ "404" :> <<"passed", "">>
          @@ "200" :> <<"failed", "API does not properly handle 404 errors">>
  IN [i \in DOMAIN endpoints |-> Check(testName(endpoints[i]), testEndpoint(endpoints[i]))]
     \o <<Check("API Response Times", testResponseTimes),
          Check("API Error Handling", testErrorHandling)>>

a11yChecks ==
  LET testAltTexts ==
        "throws" :> <<"skipped", "">> @@ "clean" :> <<"passed", "">>
          @@ "missing" :> <<"failed", "Found 1 images without alt text">>
      testHeadingStructure ==
        "throws" :> <<"skipped", "">> @@ "clean" :> <<"passed", "">>
          @@ "none" :> <<"failed", "No H1 heading found">>
          @@ "many" :> <<"warning", "Multiple H1 headings found">>
      testColorContrast == "none" :> <<"passed", "">>
      testKeyboardNavigation ==
        "throws" :> <<"skipped", "">> @@ "clean" :> <<"passed", "">>
          @@ "missing" :> <<"warning", "">>
      testAriaLabels ==
        "throws" :> <<"skipped", "">> @@ "clean" :> <<"passed", "">>
          @@ "missing" :> <<"warning", "">>
      testFormLabels ==
        "throws" :> <<"skipped", "">> @@ "clean" :> <<"passed", "">>
          @@ "noInputs" :> <<"skipped", "">>
          @@ "missing" :> <<"failed", "Form inputs found without labels">>
      testLandmarks ==
        "throws" :> <<"skipped", "">> @@ "clean" :> <<"passed", "">>
          @@ "missing" :> <<"warning", "">>
  IN <<Check("Image Alt Texts", testAltTexts),
       Check("Heading Structure", testHeadingStructure),
       Check("Color Contrast", testColorContrast),
       Check("Keyboard Navigation", testKeyboardNavigation),
       Check("ARIA Labels", testAriaLabels),
       Check("Form Labels", testFormLabels),
       Check("Semantic Landmarks", testLandmarks)>>

performanceChecks ==
  LET testLoadTime ==
        "throws" :> <<"failed", "fetch failed">> @@ "fast" :> <<"passed", "">>
          @@ "slow" :> <<"failed", "Load time 3500.00ms exceeds 3000ms threshold">>
      testResourceSizes ==
        "throws" :> <<"skipped", "">> @@ "clean" :> <<"passed", "">>
          @@ "large" :> <<"warning", "HTML size 200.00KB exceeds recommended 97.66KB">>
      testCaching ==
        "throws" :> <<"skipped", "">> @@ "clean" :> <<"passed", "">>
          @@ "missing" :> <<"warning", "">>
      testCompression ==
        "throws" :> <<"skipped", "">> @@ "clean" :> <<"passed", "">>
          @@ "missing" :> <<"warning", "">>
      testResourceCount ==
        "throws" :> <<"skipped", "">> @@ "clean" :> <<"passed", "">>
          @@ "many" :> <<"warning", "60 resources exceed recommended 50">>
  IN <<Check("Page Load Time", testLoadTime),
       Check("Resource Sizes", testResourceSizes),
       Check("Caching Headers", testCaching),
       Check("Compression", testCompression),
       Check("Resource Count", testResourceCount)>>

\* the checks execute runs, in order, when none of them throws
checks(agent, config) ==
  CASE agent = "BrowserTestAgent" -> browserChecks(config)
    [] agent = "ApiTestAgent" -> apiChecks(config)
    [] agent = "A11yTestAgent" -> a11yChecks
    [] agent = "PerformanceTestAgent" -> performanceChecks

\* a TestResult; fetch is the outcome the check met, kept for the properties
TestResult(testName, status, error, fetch) ==
  [testName |-> testName, status |-> status, error |-> error, fetch |-> fetch]

\* the concatenation of a sequence of sequences
Flatten(ss) ==
  LET F[n \in 0..Len(ss)] == IF n = 0 THEN <<>> ELSE F[n - 1] \o ss[n]
  IN F[Len(ss)]

\* TestAgent.generateSuggestions: one suggestion for each failed result with
\* an error
baseGenerateSuggestions(rs) ==
  LET \* failure.error.includes(needle), over the error texts above
      includes(error, needle) ==
        /\ needle = "404"
        /\ error \in {"Page returned status 404", "Endpoint returned status 404",
                      "API does not properly handle 404 errors"}
      suggestion(failure) ==
        IF includes(failure.error, "TypeError")
          THEN <<"Fix type error in", failure.testName>>
        ELSE IF includes(failure.error, "ReferenceError")
          THEN <<"Fix reference error in", failure.testName>>
        ELSE IF includes(failure.error, "404")
          THEN <<"Fix missing resource in", failure.testName>>
        ELSE IF includes(failure.error, "timeout")
          THEN <<"Fix timeout in", failure.testName>>
        ELSE <<"Fix error in", failure.testName, failure.error>>
  IN Flatten([i \in DOMAIN rs |->
                IF rs[i].status = "failed" /\ rs[i].error # ""
                  THEN <<suggestion(rs[i])>> ELSE <<>>])

\* the suggestions an agent's own generateSuggestions pushes for a result
ownSuggestions(agent, testName) ==
  CASE agent = "BrowserTestAgent" ->
         CASE testName = "Page Load" ->
                <<<<"Ensure the development server is running and accessible">>,
                  <<"Check for build errors that might prevent the page from loading">>>>
           [] testName = "JavaScript Errors" ->
                <<<<"Fix JavaScript errors in the console">>,
                  <<"Check for undefined variables or missing imports">>>>
           [] testName = "Broken Links" ->
                <<<<"Update or remove broken links">>,
                  <<"Ensure all linked resources exist">>>>
           [] testName = "SEO Elements" ->
                <<<<"Add missing SEO meta tags">>,
                  <<"Ensure each page has a unique title and description">>>>
           [] testName = "Image Loading" ->
                <<<<"Fix broken image paths">>,
                  <<"Ensure all images are properly imported or referenced">>>>
           [] OTHER -> <<>>
    [] agent = "A11yTestAgent" ->
         CASE testName = "Image Alt Texts" ->
                <<<<"Add descriptive alt text to all images">>,
                  <<"Use empty alt for decorative images">>>>
           [] testName = "Heading Structure" ->
                <<<<"Ensure proper heading hierarchy (H1, H2, H3)">>,
                  <<"Use only one H1 per page">>>>
           [] testName = "Color Contrast" ->
                <<<<"Ensure text has sufficient contrast against background">>,
                  <<"Use tools to verify WCAG AA contrast ratios (4.5:1 for normal text)">>>>
           [] testName = "Keyboard Navigation" ->
                <<<<"Add skip navigation links">>,
                  <<"Ensure all interactive elements are keyboard accessible">>>>
           [] testName = "Form Labels" ->
                <<<<"Associate labels with form inputs using for/id attributes">>,
                  <<"Use aria-label for inputs without visible labels">>>>
           [] OTHER -> <<>>
    [] agent = "PerformanceTestAgent" ->
         CASE testName = "Page Load Time" ->
                <<<<"Optimize images and use appropriate formats (WebP, AVIF)">>,
                  <<"Minimize JavaScript and CSS bundle sizes">>,
                  <<"Use code splitting and lazy loading">>>>
           [] testName = "Resource Sizes" ->
                <<<<"Minify HTML, CSS, and JavaScript files">>,
                  <<"Remove unused code and dependencies">>>>
           [] testName = "Caching Headers" ->
                <<<<"Add Cache-Control headers for static assets">>,
                  <<"Implement ETags for dynamic content">>>>
           [] testName = "Compression" ->
                <<<<"Enable gzip or Brotli compression on the server">>,
                  <<"Compress text-based resources (HTML, CSS, JS)">>>>
           [] testName = "Resource Count" ->
                <<<<"Combine multiple CSS/JS files">>,
                  <<"Use CSS sprites for small images">>,
                  <<"Lazy load images below the fold">>>>
           [] OTHER -> <<>>
    [] OTHER -> <<>>

\* [...new Set(suggestions)]: the first occurrence of each entry, in order
newSet(s) ==
  LET first == {i \in DOMAIN s : \A j \in 1..(i - 1) : s[j] # s[i]}
      F[n \in 0..Len(s)] ==
        IF n = 0 THEN <<>>
        ELSE IF n \in first THEN Append(F[n - 1], s[n]) ELSE F[n - 1]
  IN F[Len(s)]

\* this.generateSuggestions(results), as each agent defines or inherits it
generateSuggestions(agent, rs) ==
  IF agent = "ApiTestAgent" THEN baseGenerateSuggestions(rs)
  ELSE LET failing == IF agent = "BrowserTestAgent" THEN {"failed"}
                      ELSE {"failed", "warning"}
           own == [i \in DOMAIN rs |->
                     IF rs[i].status \in failing
                       THEN ownSuggestions(agent, rs[i].testName) ELSE <<>>]
       IN newSet(baseGenerateSuggestions(rs) \o Flatten(own))

VARIABLES
  agentRun   \* the execute call in progress or the last one finished

agentVars == <<agentRun>>

\* action.config as execute reads it: endpoints says whether config.endpoints
\* is missing, an array (list) or a value that cannot be iterated
Config(checkSEO, checkImages, endpoints, list) ==
  [checkSEO |-> checkSEO, checkImages |-> checkImages, endpoints |-> endpoints,
   list |-> list]

Configs(agent) ==
  IF agent = "BrowserTestAgent"
    THEN {Config(s, i, "missing", <<>>) : s \in BOOLEAN, i \in BOOLEAN}
  ELSE IF agent = "ApiTestAgent"
    THEN {Config(FALSE, FALSE, "array", e) : e \in SeqsUpTo(Endpoints, MaxEndpoints)}
         \cup {Config(FALSE, FALSE, "missing", <<>>),
               Config(FALSE, FALSE, "notIterable", <<>>)}
  ELSE {Config(FALSE, FALSE, "missing", <<>>)}

AgentInit ==
  agentRun = [agent |-> "", config |-> Config(FALSE, FALSE, "missing", <<>>),
              state |-> "idle", pos |-> 0, results |-> <<>>, suggestions |-> <<>>]

\* createReport(results, duration, metadata): execute returns the report
agentCreateReport(run, rs) ==
  [run EXCEPT !.state = "reported", !.results = rs,
              !.suggestions = generateSuggestions(run.agent, rs)]

\* the catch block of execute: one failed result for the suite, then the report
executeCatch(run, message) ==
  LET suiteName ==
        CASE run.agent = "BrowserTestAgent" -> "Browser Test Suite"
          [] run.agent = "ApiTestAgent" -> "API Test Suite"
          [] run.agent = "A11yTestAgent" -> "Accessibility Test Suite"
          [] run.agent = "PerformanceTestAgent" -> "Performance Test Suite"
  IN agentCreateReport(run, Append(run.results,
                                   TestResult(suiteName, "failed", message, "none")))

\* execute(context, action), up to the await of its first check
execute(agent, config) ==
  /\ agentRun.state # "running"
  /\ LET run == [agent |-> agent, config |-> config, state |-> "running", pos |-> 1,
                 results |-> <<>>, suggestions |-> <<>>]
     IN agentRun' = IF agent = "ApiTestAgent" /\ config.endpoints = "notIterable"
                      THEN executeCatch(run, "endpoints is not iterable")
                    ELSE run

\* the awaited check settles: its result is pushed and the next check starts,
\* or the report is created after the last one
checkSettles(outcome) ==
  /\ agentRun.state = "running"
  /\ LET battery == checks(agentRun.agent, agentRun.config)
         check == battery[agentRun.pos]
     IN /\ outcome \in DOMAIN check.returns
        /\ LET ret == check.returns[outcome]
               rs == Append(agentRun.results,
                            TestResult(check.testName, ret[1], ret[2], outcome))
           IN agentRun' =
                IF ret[1] = "throws" THEN executeCatch(agentRun, ret[2])
                ELSE IF agentRun.pos = Len(battery) THEN agentCreateReport(agentRun, rs)
                ELSE [agentRun EXCEPT !.pos = @ + 1, !.results = rs]

\* ================================================================ ErrorMonitor
\* (app/lib/runtime/error-monitor.ts)
MaxMonitored == 3     \* monitorOutput calls between two clearErrors calls

\* an output text, by the patterns of monitorOutput it matches
Outputs == [vite : BOOLEAN, ts : BOOLEAN, import : BOOLEAN]

VARIABLES
  errorBuffer,   \* ErrorMonitor.errorBuffer
  monCall,       \* the last call of a public method and what it returned
  monReturned,   \* the lists monitorOutput returned since the last clearErrors
  startRun       \* the start command that resolved in the last step, if one did

monVars == <<errorBuffer, monCall, monReturned, startRun>>

NoOutput == [vite |-> FALSE, ts |-> FALSE, import |-> FALSE]
MonCall(op, output, ret) == [op |-> op, output |-> output, ret |-> ret]

MonitorInit ==
  /\ errorBuffer = <<>>
  /\ monCall = MonCall("", NoOutput, <<>>)
  /\ monReturned = <<>>
  /\ startRun = <<>>

\* the detectedErrors of one monitorOutput call
detectedErrors(output) ==
  LET CompilationError(type) == [type |-> type, rawError |-> output]
  IN (IF output.vite THEN <<CompilationError("syntax")>> ELSE <<>>)
     \o (IF output.ts THEN <<CompilationError("typescript")>> ELSE <<>>)
     \o (IF output.import THEN <<CompilationError("import")>> ELSE <<>>)

\* what monitorOutput returns
monitorReturnBuffer(buffer, detected) == buffer \o detected
monitorReturn(buffer, detected) == detected

monitorOutput(output) ==
  /\ errorBuffer' = errorBuffer \o detectedErrors(output)
  /\ monCall' = MonCall("monitorOutput", output,
                        monitorReturn(errorBuffer, detectedErrors(output)))
  /\ monReturned' = Append(monReturned, monCall'.ret)

getErrors ==
  /\ monCall' = MonCall("getErrors", NoOutput, errorBuffer)
  /\ UNCHANGED <<errorBuffer, monReturned>>

clearErrors ==
  /\ errorBuffer' = <<>>
  /\ monCall' = MonCall("clearErrors", NoOutput, <<>>)
  /\ monReturned' = <<>>

\* this.errorBuffer[this.errorBuffer.length - 1] || null
getLatestError ==
  /\ monCall' = MonCall("getLatestError", NoOutput,
                        IF errorBuffer = <<>> THEN <<>>
                        ELSE <<errorBuffer[Len(errorBuffer)]>>)
  /\ UNCHANGED <<errorBuffer, monReturned>>

hasCriticalErrors ==
  /\ monCall' = MonCall("hasCriticalErrors", NoOutput,
                        <<\E i \in DOMAIN errorBuffer : errorBuffer[i].type \in {"syntax", "build"}>>)
  /\ UNCHANGED <<errorBuffer, monReturned>>

\* shell.lastDetectedErrors && shell.lastDetectedErrors.length > 0
hasDetectedErrorsAlways(lastDetectedErrors) == TRUE
hasDetectedErrors(lastDetectedErrors) == Len(lastDetectedErrors) > 0

\* #runStartAction from the point where shell.executeCommand resolves, with
\* #handleCompilationErrors: lastDetectedErrors is the shell's list at that
\* point, onCompilationError tells whether the callback is set. startRun
\* keeps the reports passed to the callback, the fallback alerts raised and
\* the shell's list as the step leaves it
runStartActionResolves(lastDetectedErrors, onCompilationError) ==
  LET handled == hasDetectedErrors(lastDetectedErrors)
  IN /\ startRun' = <<[detected |-> lastDetectedErrors,
                        onCompilationError |-> onCompilationError,
                        reports |-> IF handled /\ onCompilationError
                                      THEN <<[errors |-> lastDetectedErrors,
                                              formatted |-> errorBuffer]>>
                                      ELSE <<>>,
                        alerts |-> IF handled /\ ~onCompilationError
                                     THEN <<[type |-> "error",
                                             title |-> "Compilation Error Detected"]>>
                                     ELSE <<>>,
                        lastDetectedErrors |-> IF handled THEN <<>>
                                               ELSE lastDetectedErrors]>>
     /\ IF handled
          THEN \* errorMonitor.clearErrors()
               /\ errorBuffer' = <<>>
               /\ monCall' = MonCall("clearErrors", NoOutput, <<>>)
               /\ monReturned' = <<>>
          ELSE \* const errorMonitor = ErrorMonitor.getInstance()
               /\ monCall' = MonCall("getInstance", NoOutput, <<>>)
               /\ UNCHANGED <<errorBuffer, monReturned>>

\* ================================================================ TestFeedbackParser
\* (app/lib/runtime/action-runner.ts)
MaxTexts == 2         \* strings in a report
MaxTextLen == 1       \* tokens in a string
MaxTotal == 10        \* report.summary.total

\* a message is a sequence of tokens: the two tags, single characters and the
\* line break
TEST_RESULT_TAG_OPEN == "<boltTestResult"
TEST_RESULT_TAG_CLOSE == "</boltTestResult>"

\* the reports, each the list of its strings (test names, errors,
\* suggestions), each string a sequence of tokens
Reports ==
  LET Chars == {"a", "quote", "<", ">", TEST_RESULT_TAG_OPEN, TEST_RESULT_TAG_CLOSE}
  IN SeqsUpTo(SeqsUpTo(Chars, MaxTextLen), MaxTexts)

VARIABLES
  \* the last call of a static method and the call that fed it:
  fbReport,     \* the report handed to formatForMessage
  fbMessage,    \* the message formatForMessage returned
  fbParsed,     \* what parseTestResults returned for that message
  fbSeverity    \* the summary handed to calculateSeverity and its result

fbVars == <<fbReport, fbMessage, fbParsed, fbSeverity>>

Null == [isNull |-> TRUE, value |-> <<>>]
Value(v) == [isNull |-> FALSE, value |-> v]

FeedbackInit ==
  /\ fbReport = <<>>
  /\ fbMessage = <<>>
  /\ fbParsed = [done |-> FALSE, ret |-> Null]
  /\ fbSeverity = [total |-> 0, failed |-> 0, severity |-> ""]

\* JSON.stringify(report, null, 2): the strings, one per line, each between
\* quotes and with a backslash before a quote
stringify(rep) ==
  LET esc(c) == IF c = "quote" THEN <<"backslash", "quote">> ELSE <<c>>
      text(t) == <<"quote">> \o Flatten([i \in DOMAIN t |-> esc(t[i])]) \o <<"quote">>
      F[n \in 1..Len(rep)] ==
        IF n = 1 THEN <<"newline">> \o text(rep[1])
        ELSE F[n - 1] \o <<",", "newline">> \o text(rep[n])
  IN IF rep = <<>> THEN <<"[", "]">>
     ELSE <<"[">> \o F[Len(rep)] \o <<"newline", "]">>

formatForMessage(rep) ==
  <<TEST_RESULT_TAG_OPEN, ">", "newline">> \o stringify(rep)
    \o <<"newline", TEST_RESULT_TAG_CLOSE>>

\* message.indexOf(token), counted from 1; 0 when absent
indexOf(message, tokens) ==
  IF \E i \in DOMAIN message : message[i] \in tokens
    THEN CHOOSE i \in DOMAIN message :
           /\ message[i] \in tokens
           /\ \A j \in 1..(i - 1) : message[j] \notin tokens
    ELSE 0

lastIndexOf(message, tokens) ==
  IF \E i \in DOMAIN message : message[i] \in tokens
    THEN CHOOSE i \in DOMAIN message :
           /\ message[i] \in tokens
           /\ \A j \in (i + 1)..Len(message) : message[j] \notin tokens
    ELSE 0

\* JSON.parse of a list of strings: Null when it throws
JSONparse(content) ==
  LET P[n \in 0..Len(content)] ==
        IF n = 0 THEN [at |-> "start", list |-> <<>>, text |-> <<>>]
        ELSE LET s == P[n - 1]
                 c == content[n]
             IN CASE s.at = "error" -> s
                  [] s.at = "string" ->
                       IF c = "backslash" THEN [s EXCEPT !.at = "escape"]
                       ELSE IF c = "quote"
                         THEN [at |-> "value", list |-> Append(s.list, s.text), text |-> <<>>]
                       ELSE IF c = "newline" THEN [s EXCEPT !.at = "error"]
                       ELSE [s EXCEPT !.text = Append(@, c)]
                  [] s.at = "escape" ->
                       IF c \in {"quote", "backslash"}
                         THEN [s EXCEPT !.at = "string", !.text = Append(@, c)]
                       ELSE [s EXCEPT !.at = "error"]
                  [] c = "newline" -> s
                  [] s.at = "start" ->
                       IF c = "[" THEN [s EXCEPT !.at = "open"] ELSE [s EXCEPT !.at = "error"]
                  [] s.at = "open" ->
                       IF c = "quote" THEN [s EXCEPT !.at = "string"]
                       ELSE IF c = "]" THEN [s EXCEPT !.at = "end"]
                       ELSE [s EXCEPT !.at = "error"]
                  [] s.at = "value" ->
                       IF c = "," THEN [s EXCEPT !.at = "comma"]
                       ELSE IF c = "]" THEN [s EXCEPT !.at = "end"]
                       ELSE [s EXCEPT !.at = "error"]
                  [] s.at = "comma" ->
                       IF c = "quote" THEN [s EXCEPT !.at = "string"]
                       ELSE [s EXCEPT !.at = "error"]
                  [] OTHER -> [s EXCEPT !.at = "error"]
  IN IF P[Len(content)].at = "end" THEN Value(P[Len(content)].list) ELSE Null

parseTestResults(message) ==
  LET \* the tokens that hold the character '>' (at their end) and the
      \* character '<' (at their start)
      HoldGt == {">", TEST_RESULT_TAG_CLOSE}
      HoldLt == {"<", TEST_RESULT_TAG_OPEN, TEST_RESULT_TAG_CLOSE}
      startIndex == indexOf(message, {TEST_RESULT_TAG_OPEN})
      endIndex == indexOf(message, {TEST_RESULT_TAG_CLOSE})
  IN IF startIndex = 0 \/ endIndex = 0 THEN Null
     ELSE LET xmlContent == SubSeq(message, startIndex, endIndex)
              contentStart == indexOf(xmlContent, HoldGt) + 1
              contentEnd == lastIndexOf(xmlContent, HoldLt)
          IN JSONparse(SubSeq(xmlContent, contentStart, contentEnd - 1))

\* a caller formats a report for a message
callFormatForMessage(rep) ==
  /\ fbReport' = rep
  /\ fbMessage' = formatForMessage(rep)
  /\ fbParsed' = [done |-> FALSE, ret |-> Null]
  /\ fbSeverity' = [total |-> 0, failed |-> 0, severity |-> ""]

\* and parses the message back
callParseTestResults ==
  /\ fbMessage # <<>>
  /\ ~fbParsed.done
  /\ fbParsed' = [done |-> TRUE, ret |-> parseTestResults(fbMessage)]
  /\ UNCHANGED <<fbReport, fbMessage, fbSeverity>>

\* calculateSeverity(report): failureRate = failed / total is NaN for 0 / 0,
\* and every comparison with NaN is false
calculateSeverity(total, failed) ==
  LET isNaN == total = 0 /\ failed = 0
  IN IF ~isNaN /\ failed = 0 THEN "success"
     ELSE IF ~isNaN /\ failed * 10 < 3 * total THEN "warning"
     ELSE "error"

\* generateFeedback / createFeedbackAction on a report with this summary
generateFeedback(total, failed) ==
  /\ fbSeverity' = [total |-> total, failed |-> failed,
                    severity |-> calculateSeverity(total, failed)]
  /\ fbReport' = <<>>
  /\ fbMessage' = <<>>
  /\ fbParsed' = [done |-> FALSE, ret |-> Null]

\* ================================================================ ActionRunner.#runBuildAction
\* (app/lib/runtime/action-runner.ts): the search for the build directory
commonBuildDirs == <<"dist", "build", "out", "output", ".next", "public">>

VARIABLES
  build   \* the #runBuildAction call in progress or the last one finished

buildVars == <<build>>

BuildInit ==
  build = [state |-> "idle", existing |-> {}, index |-> 0, path |-> ""]

\* up to `await buildProcess.exit`: a non-zero exit code throws 'Build Failed',
\* otherwise the first readdir is awaited
runBuildAction(existing, exitCode) ==
  /\ build.state \notin {"probing"}
  /\ build' = IF exitCode # 0
                THEN [state |-> "failed", existing |-> existing, index |-> 0, path |-> ""]
                ELSE [state |-> "probing", existing |-> existing, index |-> 1, path |-> ""]

\* webcontainer.fs.readdir(dirPath) resolves for a directory that exists
readdirResolvesAlways(dir, existing) == TRUE
readdirResolves(dir, existing) == dir \in existing

\* the awaited readdir settles: the directory is taken, or the next one is
\* tried, or the default is taken after the last one
readdirSettles ==
  /\ build.state = "probing"
  /\ LET dir == commonBuildDirs[build.index]
     IN build' =
          IF readdirResolves(dir, build.existing)
            THEN [build EXCEPT !.state = "returned", !.path = dir]
          ELSE IF build.index < Len(commonBuildDirs)
            THEN [build EXCEPT !.index = @ + 1]
          ELSE [build EXCEPT !.state = "returned", !.path = "dist"]

\* ---------------------------------------------------------------- specification
\* the variables of the test agents, the ErrorMonitor, the TestFeedbackParser
\* and the build action
utilVars == <<agentVars, monVars, fbVars, buildVars>>

vars == <<runnerVars, mgrVars, reportVars, trVars, utilVars>>

Init == RunnerInit /\ ManagerInit /\ ReportInit /\ TestRunnerInit /\ AgentInit
        /\ MonitorInit /\ FeedbackInit /\ BuildInit

\* the ActionRunner's operations; the other components stay as constructed
Next ==
  \/ \E id \in ActionIds, type \in ActionTypes, content \in Contents :
       addAction(id, type, content) /\ UNCHANGED <<mgrVars, reportVars, trVars, utilVars>>
  \/ \E id \in ActionIds, content \in Contents, isStreaming \in BOOLEAN :
       runAction(id, content, isStreaming) /\ UNCHANGED <<mgrVars, reportVars, trVars, utilVars>>
  \/ \E id \in ActionIds : abort(id) /\ UNCHANGED <<mgrVars, reportVars, trVars, utilVars>>
  \/ \E p \in DOMAIN reactions : thenRunning(p) /\ UNCHANGED <<mgrVars, reportVars, trVars, utilVars>>
  \/ \E p \in DOMAIN reactions : executeAction(p) /\ UNCHANGED <<mgrVars, reportVars, trVars, utilVars>>
  \/ \E n \in DOMAIN links, outcome \in {"ok", "cmderr", "err"} :
       opSettles(n, outcome) /\ UNCHANGED <<mgrVars, reportVars, trVars, utilVars>>
  \/ \E n \in DOMAIN links, outcome \in {"ok", "err"} :
       autotestSettles(n, outcome) /\ UNCHANGED <<mgrVars, reportVars, trVars, utilVars>>
  \/ \E n \in DOMAIN links : delayElapsed(n) /\ UNCHANGED <<mgrVars, reportVars, trVars, utilVars>>
  \/ \E id \in ActionIds, outcome \in {"ok", "cmderr", "err"}, compilation \in {"none", "callback", "alert"} :
       startSettles(id, outcome, compilation) /\ UNCHANGED <<mgrVars, reportVars, trVars, utilVars>>

Spec == Init /\ [][Next]_vars

\* the ActionRunner with a caller that adds actions and calls
\* runAction(isStreaming=false) for each of them, and never aborts
LiveNext ==
  \/ \E id \in ActionIds, type \in ActionTypes, content \in Contents :
       addAction(id, type, content) /\ UNCHANGED <<mgrVars, reportVars, trVars, utilVars>>
  \/ \E id \in ActionIds, content \in Contents :
       runAction(id, content, FALSE) /\ UNCHANGED <<mgrVars, reportVars, trVars, utilVars>>
  \/ \E p \in DOMAIN reactions : thenRunning(p) /\ UNCHANGED <<mgrVars, reportVars, trVars, utilVars>>
  \/ \E p \in DOMAIN reactions : executeAction(p) /\ UNCHANGED <<mgrVars, reportVars, trVars, utilVars>>
  \/ \E n \in DOMAIN links, outcome \in {"ok", "cmderr", "err"} :
       opSettles(n, outcome) /\ UNCHANGED <<mgrVars, reportVars, trVars, utilVars>>
  \/ \E n \in DOMAIN links, outcome \in {"ok", "err"} :
       autotestSettles(n, outcome) /\ UNCHANGED <<mgrVars, reportVars, trVars, utilVars>>
  \/ \E n \in DOMAIN links : delayElapsed(n) /\ UNCHANGED <<mgrVars, reportVars, trVars, utilVars>>
  \/ \E id \in ActionIds, outcome \in {"ok", "cmderr", "err"}, compilation \in {"none", "callback", "alert"} :
       startSettles(id, outcome, compilation) /\ UNCHANGED <<mgrVars, reportVars, trVars, utilVars>>

\* the microtask queue runs every callback registered on a settled promise,
\* every sandbox operation terminates (the timer of the start case included),
\* and the caller calls runAction(isStreaming=false) for every action it added
LiveSpec ==
  /\ Init /\ [][LiveNext]_vars
  /\ WF_vars(\E p \in DOMAIN reactions :
               thenRunning(p) /\ UNCHANGED <<mgrVars, reportVars, trVars, utilVars>>)
  /\ WF_vars(\E p \in DOMAIN reactions :
               executeAction(p) /\ UNCHANGED <<mgrVars, reportVars, trVars, utilVars>>)
  /\ WF_vars(\E n \in DOMAIN links, outcome \in {"ok", "cmderr", "err"} :
               opSettles(n, outcome) /\ UNCHANGED <<mgrVars, reportVars, trVars, utilVars>>)
  /\ WF_vars(\E n \in DOMAIN links, outcome \in {"ok", "err"} :
               autotestSettles(n, outcome) /\ UNCHANGED <<mgrVars, reportVars, trVars, utilVars>>)
  /\ WF_vars(\E n \in DOMAIN links :
               delayElapsed(n) /\ UNCHANGED <<mgrVars, reportVars, trVars, utilVars>>)
  /\ WF_vars(\E id \in ActionIds, outcome \in {"ok", "cmderr", "err"},
                 compilation \in {"none", "callback", "alert"} :
               startSettles(id, outcome, compilation)
                 /\ UNCHANGED <<mgrVars, reportVars, trVars, utilVars>>)
  /\ \A id \in ActionIds :
       WF_vars(\E content \in Contents :
                 /\ id \in DOMAIN actions /\ ~actions[id].executed
                 /\ runAction(id, content, FALSE)
                 /\ UNCHANGED <<mgrVars, reportVars, trVars, utilVars>>)

\* delegateTask and cancelTask calls of callers that may reuse a task id
MgrNext ==
  \/ /\ Len(delegations) < MaxDelegations
     /\ \E task \in SingleTasks : delegateTask(task)
     /\ UNCHANGED <<batch, runnerVars, reportVars, trVars, utilVars>>
  \/ \E i \in DOMAIN delegations, outcome \in {"success", "failure", "throw"} :
       executeSettles(i, outcome) /\ UNCHANGED <<batch, runnerVars, reportVars, trVars, utilVars>>
  \/ \E taskId \in TaskIds : cancelTask(taskId) /\ UNCHANGED <<batch, runnerVars, reportVars, trVars, utilVars>>

MgrSpec == Init /\ [][MgrNext]_vars

\* delegateTask and cancelTask calls of callers that number their tasks
ScoreNext ==
  \/ /\ Len(delegations) < MaxScored
     /\ \E kind \in TaskKinds, priority \in Priorities :
          delegateTask([id |-> Len(delegations) + 1, kind |-> kind, priority |-> priority])
     /\ UNCHANGED <<batch, runnerVars, reportVars, trVars, utilVars>>
  \/ \E i \in DOMAIN delegations, outcome \in {"success", "failure", "throw"} :
       executeSettles(i, outcome) /\ UNCHANGED <<batch, runnerVars, reportVars, trVars, utilVars>>
  \/ \E taskId \in 1..MaxScored :
       cancelTask(taskId) /\ UNCHANGED <<batch, runnerVars, reportVars, trVars, utilVars>>

ScoreSpec == Init /\ [][ScoreNext]_vars

\* delegateTask calls made without waiting for one another, each with a task
\* of its own for the backend agent, and the executions of their tasks
ParallelNext ==
  \/ /\ Len(delegations) < MaxParallel
     /\ \E priority \in Priorities :
          delegateTask([id |-> Len(delegations) + 1, kind |-> "backend",
                        priority |-> priority])
     /\ UNCHANGED <<batch, runnerVars, reportVars, trVars, utilVars>>
  \/ \E i \in DOMAIN delegations :
       executeSettles(i, "success") /\ UNCHANGED <<batch, runnerVars, reportVars, trVars, utilVars>>

ParallelSpec == Init /\ [][ParallelNext]_vars

\* one delegateTasks call and the executions of its tasks
BatchNext ==
  \/ \E n \in 0..MaxBatch, other \in 0..MaxBatch :
       /\ other <= n
       /\ delegateTasks(BatchTasks(n, other))
       /\ UNCHANGED <<runnerVars, reportVars, trVars, utilVars>>
  \/ \E i \in DOMAIN delegations, outcome \in {"success", "failure", "throw"} :
       executeSettles(i, outcome) /\ UNCHANGED <<batch, runnerVars, reportVars, trVars, utilVars>>
  \/ \E c \in 1..MaxBatch : chunkResolved(c) /\ UNCHANGED <<runnerVars, reportVars, trVars, utilVars>>

BatchSpec == Init /\ [][BatchNext]_vars

\* a TestRunner of its own: addAction and runTestAction calls, its microtasks
\* and the reports of its agents
TestRunnerNext ==
  \/ \E id \in TestIds, testType \in TestTypes :
       trAddAction(id, testType) /\ UNCHANGED <<runnerVars, mgrVars, reportVars, utilVars>>
  \/ trInitStep /\ UNCHANGED <<runnerVars, mgrVars, reportVars, utilVars>>
  \/ trThenRunning /\ UNCHANGED <<runnerVars, mgrVars, reportVars, utilVars>>
  \/ /\ Len(trRuns) < MaxRuns
     /\ \E id \in TestIds : trRunTestAction(id)
     /\ UNCHANGED <<runnerVars, mgrVars, reportVars, utilVars>>
  \/ trFindAgent /\ UNCHANGED <<runnerVars, mgrVars, reportVars, utilVars>>
  \/ \E r \in DOMAIN trRuns, failed \in 0..1 :
       trReportArrives(r, failed) /\ UNCHANGED <<runnerVars, mgrVars, reportVars, utilVars>>
  \/ trFinish /\ UNCHANGED <<runnerVars, mgrVars, reportVars, utilVars>>

TestRunnerSpec == Init /\ [][TestRunnerNext]_vars

\* createReport applied to every list of results
ReportNext ==
  \E rs \in SeqsUpTo(ResultStatus, MaxResults) :
    createReport(rs) /\ UNCHANGED <<runnerVars, mgrVars, trVars, utilVars>>

ReportSpec == Init /\ [][ReportNext]_vars

\* execute calls of the four agents, one at a time, with every outcome of
\* every check
AgentNext ==
  \/ \E agent \in {TestAgents[k] : k \in DOMAIN TestAgents} :
       \E config \in Configs(agent) :
         execute(agent, config)
           /\ UNCHANGED <<runnerVars, mgrVars, reportVars, trVars, monVars, fbVars, buildVars>>
  \/ \E outcome \in {"none", "throws", "200", "404", "500", "broken", "clean", "missing",
                      "many", "noInputs", "fast", "slow", "large"} :
       checkSettles(outcome)
         /\ UNCHANGED <<runnerVars, mgrVars, reportVars, trVars, monVars, fbVars, buildVars>>

AgentSpec == Init /\ [][AgentNext]_vars

\* calls of the ErrorMonitor's public methods on any outputs, and the start
\* commands of an ActionRunner that resolve with any list of detected errors
MonitorNext ==
  \/ /\ Len(monReturned) < MaxMonitored
     /\ \E output \in Outputs : monitorOutput(output)
     /\ startRun' = <<>>
     /\ UNCHANGED <<runnerVars, mgrVars, reportVars, trVars, agentVars, fbVars, buildVars>>
  \/ getErrors /\ startRun' = <<>>
       /\ UNCHANGED <<runnerVars, mgrVars, reportVars, trVars, agentVars, fbVars, buildVars>>
  \/ clearErrors /\ startRun' = <<>>
       /\ UNCHANGED <<runnerVars, mgrVars, reportVars, trVars, agentVars, fbVars, buildVars>>
  \/ getLatestError /\ startRun' = <<>>
       /\ UNCHANGED <<runnerVars, mgrVars, reportVars, trVars, agentVars, fbVars, buildVars>>
  \/ hasCriticalErrors /\ startRun' = <<>>
       /\ UNCHANGED <<runnerVars, mgrVars, reportVars, trVars, agentVars, fbVars, buildVars>>
  \/ \E output \in Outputs, onCompilationError \in BOOLEAN :
       runStartActionResolves(detectedErrors(output), onCompilationError)
         /\ UNCHANGED <<runnerVars, mgrVars, reportVars, trVars, agentVars, fbVars, buildVars>>

MonitorSpec == Init /\ [][MonitorNext]_vars

\* the TestFeedbackParser's static methods on any report
FeedbackNext ==
  \/ \E rep \in Reports :
       callFormatForMessage(rep)
         /\ UNCHANGED <<runnerVars, mgrVars, reportVars, trVars, agentVars, monVars, buildVars>>
  \/ callParseTestResults
       /\ UNCHANGED <<runnerVars, mgrVars, reportVars, trVars, agentVars, monVars, buildVars>>
  \/ \E total \in 0..MaxTotal, failed \in 0..MaxTotal :
       /\ failed <= total
       /\ generateFeedback(total, failed)
       /\ UNCHANGED <<runnerVars, mgrVars, reportVars, trVars, agentVars, monVars, buildVars>>

FeedbackSpec == Init /\ [][FeedbackNext]_vars

\* build actions over every content of the working directory
BuildNext ==
  \/ \E existing \in SUBSET {commonBuildDirs[i] : i \in DOMAIN commonBuildDirs},
          exitCode \in 0..1 :
       runBuildAction(existing, exitCode)
         /\ UNCHANGED <<runnerVars, mgrVars, reportVars, trVars, agentVars, monVars, fbVars>>
  \/ readdirSettles
       /\ UNCHANGED <<runnerVars, mgrVars, reportVars, trVars, agentVars, monVars, fbVars>>

BuildSpec == Init /\ [][BuildNext]_vars

TypeOK ==
  /\ DOMAIN actions \subseteq Keys
  /\ \A k \in DOMAIN actions :
       /\ actions[k].type \in ActionTypes
       /\ actions[k].status \in ActionStatus
       /\ actions[k].executed \in BOOLEAN
       /\ actions[k].content \in Contents
  /\ \A n \in DOMAIN links :
       links[n].state \in {"queued", "exec", "autotest", "delay", "resolved", "rejected"}

\* ---------------------------------------------------------------- properties
Started(n) == \E p \in DOMAIN startLog : startLog[p] = n

StartPos(n) == CHOOSE p \in DOMAIN startLog : startLog[p] = n

Executing(n) == links[n].state \in {"exec", "autotest", "delay"}

Settled(n) == links[n].state \in {"resolved", "rejected"}

ErrorAlerts(k) == {i \in DOMAIN alerts[k] : alerts[k][i].type = "error"}

\* C1: executions of runAction(isStreaming=false) calls start in call order:
\* when the execution of a later call has started, the execution of every
\* earlier call has started, and started before it.
C1_StartInCallOrder ==
  \A i, j \in DOMAIN links :
    (i < j /\ ~links[i].isStreaming /\ ~links[j].isStreaming /\ Started(j))
      => (Started(i) /\ StartPos(i) < StartPos(j))

\* C1 witness: two non-streaming executions have started, the first one failed.
C1_Witness ==
  \E i, j \in DOMAIN links :
    /\ i < j /\ ~links[i].isStreaming /\ ~links[j].isStreaming
    /\ Started(i) /\ Started(j)
    /\ links[i].id # links[j].id
    /\ actions[links[i].id].status = "failed"

\* C2: at most one chained execution is in progress, and an execution has
\* started only if every execution chained before it has settled.
C2_Serialized ==
  /\ Cardinality({n \in DOMAIN links : Executing(n)}) <= 1
  /\ \A i, j \in DOMAIN links : (i < j /\ Started(j)) => Settled(i)

\* C2 witness: a build has run both of its awaited operations and settled,
\* and the execution chained behind it is in progress.
C2_Witness ==
  \E n \in DOMAIN links :
    /\ n > 1
    /\ Executing(n)
    /\ Settled(n - 1)
    /\ actions[links[n - 1].id].type = "build"
    /\ autotestId(links[n - 1].id) \in DOMAIN actions

Rank(status) ==
  CASE status = "pending" -> 0
    [] status = "running" -> 1
    [] OTHER -> 2

Forward(s, t) == s = t \/ Rank(s) < Rank(t)

\* C3: the status of an action only moves forward along
\* pending -> running -> {complete, aborted, failed}: no step takes it out of
\* a terminal status or back to an earlier status.
C3_StatusMonotonic ==
  [][\A k \in DOMAIN actions : Forward(actions[k].status, actions'[k].status)]_vars

\* C4: the non-streaming execution of an action is chained at most once, and a
\* runAction call on an action whose executed flag is set chains nothing and
\* leaves the stored actions unchanged.
C4_ExecutedOnce ==
  [][/\ \A id \in DOMAIN actions :
          (lastCall'.op = "runAction" /\ lastCall'.id = id /\ actions[id].executed)
            => (links' = links /\ reactions' = reactions /\ actions' = actions)
     /\ \A id \in ActionIds :
          Cardinality({n \in DOMAIN links' :
                         links'[n].id = id /\ ~links'[n].isStreaming}) <= 1]_vars

\* C4 witness: runAction was just called again on a file
\* action whose non-streaming execution has already started.
C4_Witness ==
  /\ lastCall.op = "runAction"
  /\ \E n \in DOMAIN links :
       /\ links[n].id = lastCall.id
       /\ ~links[n].isStreaming
       /\ Started(n)
  /\ actions[lastCall.id].executed
  /\ actions[lastCall.id].type = "file"

\* C5: addAction with an actionId that is already in the map changes neither
\* the map (keys, status, executed, data) nor the scheduled callbacks.
C5_AddActionTwiceNoOp ==
  [][\A id \in DOMAIN actions :
       (lastCall'.op = "addAction" /\ lastCall'.id = id)
         => (actions' = actions /\ reactions' = reactions /\ links' = links)]_vars

\* C5 witness: addAction was just called for an action that has already been
\* executed to completion.
C5_Witness ==
  /\ lastCall.op = "addAction"
  /\ lastCall.id \in DOMAIN actions
  /\ actions[lastCall.id].executed
  /\ actions[lastCall.id].status = "complete"

\* C6: runAction(isStreaming=true) on an action that is not a file action
\* chains nothing and leaves the status and the executed flag as they were.
C6_StreamingNonFileSkipped ==
  [][\A id \in DOMAIN actions :
       (lastCall' = Call("runAction", id, TRUE) /\ actions[id].type # "file")
         => /\ links' = links
            /\ reactions' = reactions
            /\ actions'[id].status = actions[id].status
            /\ actions'[id].executed = actions[id].executed]_vars

\* C6 witness: runAction(isStreaming=true) was just called on a shell action
\* that has not been executed.
C6_Witness ==
  /\ lastCall.op = "runAction"
  /\ lastCall.isStreaming
  /\ actions[lastCall.id].type = "shell"
  /\ ~actions[lastCall.id].executed
  /\ links = <<>>

\* C7: the chain promise is never left rejected, and no chained execution is
\* skipped: every link that has settled was executed.
C7_ChainNeverRejected ==
  \A n \in DOMAIN links :
    /\ links[n].state # "rejected"
    /\ Settled(n) => Started(n)

\* C7 witness: an execution failed with a command error and the execution
\* chained behind it completed.
C7_Witness ==
  \E n \in DOMAIN links :
    /\ n > 1
    /\ links[n].id # links[n - 1].id
    /\ actions[links[n - 1].id].status = "failed"
    /\ ErrorAlerts(links[n - 1].id) # {}
    /\ actions[links[n - 1].id].type = "shell"
    /\ Settled(n)
    /\ actions[links[n].id].status = "complete"

\* C8: an action whose operation threw after abort() was called on it is never
\* set to failed and no error alert is raised for it; for chained actions and
\* for the detached start process.
C8_AbortedNeverFailed ==
  /\ \A n \in DOMAIN links :
       links[n].abortedAtThrow
         => /\ actions[links[n].id].status # "failed"
            /\ ErrorAlerts(links[n].id) = {}
  /\ \A id \in DOMAIN actions \cap ActionIds :
       procs[id].abortedAtThrow
         => /\ actions[id].status # "failed"
            /\ ErrorAlerts(id) = {}

\* C9: an abort() call changes the status and the abort signal of its own
\* action only: every other action, the chain and the callbacks registered on
\* it are unchanged.
C9_AbortFrame ==
  [][\A id \in DOMAIN actions :
       (lastCall'.op = "abort" /\ lastCall'.id = id)
         => /\ DOMAIN actions' = DOMAIN actions
            /\ \A k \in DOMAIN actions \ {id} : actions'[k] = actions[k]
            /\ actions'[id] = [actions[id] EXCEPT !.status = "aborted", !.aborted = TRUE]
            /\ links' = links
            /\ reactions' = reactions]_vars

\* C9 witness: abort() was just called on the action that is executing while
\* the execution of another action is queued behind it.
C9_Witness ==
  /\ lastCall.op = "abort"
  /\ \E i, j \in DOMAIN links :
       /\ i < j
       /\ links[i].id = lastCall.id
       /\ links[i].state = "exec"
       /\ links[j].id # lastCall.id
       /\ links[j].state = "queued"
       /\ actions[links[j].id].status = "pending"

\* C10: a start action has status complete or failed only once its detached
\* process has settled; the chain does not wait for it.
C10_StartDetached ==
  \A id \in DOMAIN actions \cap ActionIds :
    (actions[id].type = "start" /\ actions[id].status \in {"complete", "failed"})
      => procs[id].state = "done"

\* C10 witness: the link of a start action has settled and the next execution
\* is in progress while the start action is running and its process has not
\* settled.
C10_Witness ==
  \E n \in DOMAIN links :
    /\ n > 1
    /\ Executing(n)
    /\ Settled(n - 1)
    /\ actions[links[n - 1].id].type = "start"
    /\ actions[links[n - 1].id].status = "running"
    /\ procs[links[n - 1].id].state = "running"

\* C11: after a build run through runAction has exited with code 0 and its
\* automated test has run without a test-execution error, a TestReport with
\* summary.total >= 5 is stored under '<buildActionId>-autotest'.
C11_AutotestReportStored ==
  \A n \in DOMAIN links :
    LET id == links[n].id
    IN (/\ actions[id].type = "build"
        /\ Settled(n)
        /\ autotestId(id) \in DOMAIN actions
        /\ ErrorAlerts(id) = {})
       => /\ autotestId(id) \in DOMAIN testReports
          /\ testReports[autotestId(id)] >= 5

\* ---------------------------------------------------------------- SubagentManager claims
InActive(i) == \E id \in DOMAIN activeTasks : activeTasks[id] = i

CompletedCount(i) == Cardinality({p \in DOMAIN completedTasks : completedTasks[p] = i})

\* C12: under any interleaving of delegateTask, the settling of execute and
\* cancelTask, a delegation is never appended to the completed list more than
\* once, and once removed from the active map it is never put back into it.
C12_MovesOnce ==
  [][\A i \in DOMAIN delegations' :
       /\ CompletedCount(i)' <= 1
       /\ (i \in DOMAIN delegations /\ ~InActive(i)) => ~InActive(i)']_vars

\* C13: every delegation the manager created is in exactly one of the active
\* map and the completed list, also when delegated tasks share an id.
C13_ExactlyOneStore ==
  \A i \in DOMAIN delegations : InActive(i) # (CompletedCount(i) > 0)

\* C14: cancelTask(id) on an id of the active map returns true, gives that
\* delegation status failed and an endTime, removes it from the active map and
\* appends it to the completed list; on any other id it returns false and
\* changes neither collection nor any delegation.
C14_CancelEffect ==
  [][mgrCall'.op = "cancelTask" =>
       LET id == mgrCall'.id
       IN IF id \in DOMAIN activeTasks
            THEN LET i == activeTasks[id]
                 IN /\ mgrCall'.ret.success
                    /\ delegations' = [delegations EXCEPT ![i].status = "failed",
                                                          ![i].ended = TRUE]
                    /\ id \notin DOMAIN activeTasks'
                    /\ \A k \in DOMAIN activeTasks \ {id} :
                         k \in DOMAIN activeTasks' /\ activeTasks'[k] = activeTasks[k]
                    /\ completedTasks' = Append(completedTasks, i)
            ELSE /\ ~mgrCall'.ret.success
                 /\ UNCHANGED <<delegations, activeTasks, completedTasks>>]_vars

\* cancelTask returned false for the id of a task that has already completed
C14_Witness ==
  /\ mgrCall.op = "cancelTask"
  /\ ~mgrCall.ret.success
  /\ \E p \in DOMAIN completedTasks :
       /\ delegations[completedTasks[p]].id = mgrCall.id
       /\ delegations[completedTasks[p]].outcome # "pending"

\* C15: delegateTask for a task no registered agent can handle returns a
\* result with success=false and an error, does not throw, and leaves the
\* delegations, the active map and the completed list as they were, whatever
\* the task's priority.
C15_NoAgentNoDelegation ==
  [][(mgrCall'.op = "delegateTask" /\ mgrCall'.kind = "other") =>
       /\ mgrCall'.ret.state = "fulfilled"
       /\ ~mgrCall'.ret.success
       /\ mgrCall'.ret.errors > 0
       /\ UNCHANGED <<delegations, activeTasks, completedTasks>>]_vars

\* a critical task no agent handles was refused while another task was active
C15_Witness ==
  /\ mgrCall.op = "delegateTask"
  /\ mgrCall.kind = "other"
  /\ mgrCall.priority = "critical"
  /\ ~mgrCall.ret.success
  /\ DOMAIN activeTasks # {}

\* C16: delegateTask and delegateTasks never reject; a task whose execute threw
\* yields a result with success=false and a non-empty errors list, and its
\* delegation is in the completed list with status failed and an endTime;
\* delegateTasks returns exactly one result per input task, in input order.
C16_ThrowBecomesResult ==
  /\ batch.state # "rejected"
  /\ \A i \in DOMAIN delegations :
       /\ delegations[i].result.state # "rejected"
       /\ delegations[i].outcome = "throw" =>
            /\ delegations[i].result.state = "fulfilled"
            /\ ~delegations[i].result.success
            /\ delegations[i].result.errors > 0
            /\ delegations[i].status = "failed"
            /\ delegations[i].ended
            /\ CompletedCount(i) > 0
            /\ ~InActive(i)
  /\ batch.state = "done" =>
       /\ Len(batch.results) = Len(batch.tasks)
       /\ \A p \in DOMAIN batch.tasks :
            /\ batch.results[p].taskId = batch.tasks[p].id
            /\ batch.results[p].result.state = "fulfilled"

\* a delegateTasks call of two chunks has returned; one of its tasks threw,
\* one found no agent, and two tasks settled in the reverse of input order
C16_Witness ==
  /\ batch.state = "done"
  /\ Len(batch.chunks) = 2
  /\ \E i \in DOMAIN delegations : delegations[i].outcome = "throw"
  /\ \E p \in DOMAIN batch.slots : batch.slots[p] = 0
  /\ \E p, q \in DOMAIN completedTasks :
       p < q /\ delegations[completedTasks[p]].id > delegations[completedTasks[q]].id

\* C17: delegateTasks partitions its input, in input order, into chunks of 5,
\* and while a task of a chunk has not resolved no task of a later chunk has
\* been started (no delegation created for it).
C17_ChunkAfterChunk ==
  batch.state # "idle" =>
    /\ \A c \in DOMAIN batch.chunks :
         batch.chunks[c] =
           SubSeq(batch.tasks, 5 * (c - 1) + 1,
                  IF 5 * c < Len(batch.tasks) THEN 5 * c ELSE Len(batch.tasks))
    /\ 5 * Len(batch.chunks) >= Len(batch.tasks)
    /\ \A p \in DOMAIN batch.slots, q \in DOMAIN batch.tasks :
         ((q - 1) \div 5 < (p - 1) \div 5) =>
           /\ q \in DOMAIN batch.slots
           /\ taskResult(batch, delegations, q).state = "fulfilled"

\* the sixth task has been started, after each of the first five resolved
C17_Witness ==
  /\ batch.state = "running"
  /\ Len(batch.slots) = 6
  /\ batch.slots[6] # 0
  /\ delegations[batch.slots[6]].outcome = "pending"
  /\ \A q \in 1..5 : taskResult(batch, delegations, q).state = "fulfilled"

\* the state calculateAgentScore reads, as the claim words it
HasActive(agent) == \E id \in DOMAIN activeTasks : delegations[activeTasks[id]].agent = agent

History(agent) == {p \in DOMAIN completedTasks : delegations[completedTasks[p]].agent = agent}

Successes(agent) ==
  {p \in History(agent) : delegations[completedTasks[p]].status = "completed"}

\* C18: the score delegateTask computes for a capable agent is 100, minus 20 if
\* the agent has a delegation in the active map, plus 20 times the fraction of
\* its completed-list delegations whose status is completed (0 without any),
\* plus 30 for a critical and 20 for a high priority task.
C18_ScoreFormula ==
  [][mgrCall'.op = "delegateTask" =>
       \A a \in DOMAIN scores' :
         LET n == Cardinality(History(a))
             c == Cardinality(Successes(a))
             flat == 100 - (IF HasActive(a) THEN 20 ELSE 0)
                         + (IF mgrCall'.priority = "critical" THEN 30
                            ELSE IF mgrCall'.priority = "high" THEN 20 ELSE 0)
         IN IF n = 0
              THEN scores'[a].num = flat * scores'[a].den
              ELSE scores'[a].num * n = (flat * n + 20 * c) * scores'[a].den]_vars

\* a critical task was scored for a busy agent whose only completed task
\* succeeded: 100 - 20 + 20 + 30
C18_Witness ==
  /\ mgrCall.op = "delegateTask"
  /\ mgrCall.priority = "critical"
  /\ \E a \in DOMAIN scores :
       /\ mgrCall.agent # a
       /\ HasActive(a)
       /\ Cardinality(History(a)) = 1
       /\ scores[a].num = 130 * scores[a].den

\* C19: delegateTask assigns the task to an agent that can handle it and whose
\* score no capable agent exceeds; among the capable agents of that score it
\* is the one registered first; only capable agents are scored.
C19_BestAgentFirstRegistered ==
  [][mgrCall'.op = "delegateTask" =>
       LET capable == {i \in DOMAIN Agents : canHandle(Agents[i], [kind |-> mgrCall'.kind])}
       IN /\ DOMAIN scores' = {Agents[i] : i \in capable}
          /\ (capable = {}) <=> (mgrCall'.agent = NoAgent)
          /\ capable # {} =>
               \E i \in capable :
                 /\ mgrCall'.agent = Agents[i]
                 /\ delegations'[Len(delegations')].agent = Agents[i]
                 /\ \A j \in capable : ~ScoreLess(scores'[Agents[i]], scores'[Agents[j]])
                 /\ \A j \in capable :
                      j < i => ScoreLess(scores'[Agents[j]], scores'[Agents[i]])]_vars

\* a tie between an idle agent without history and a busy agent with a 100%
\* history went to the agent registered first
C19_Witness ==
  /\ mgrCall.op = "delegateTask"
  /\ mgrCall.kind = "fullstack"
  /\ mgrCall.agent = Agents[1]
  /\ ScoreEq(scores[Agents[1]], scores[Agents[2]])
  /\ \A i \in DOMAIN delegations :
       delegations[i].agent = Agents[1] => i = Len(delegations)
  /\ HasActive(Agents[2])
  /\ History(Agents[2]) # {}
  /\ Successes(Agents[2]) = History(Agents[2])

\* C20: the summary of a report createReport made has total = the number of
\* results, passed / failed / skipped = the number of results of that status,
\* and passed + failed + skipped = total.
C20_SummaryAddsUp ==
  report.made =>
    /\ report.total = Len(results)
    /\ report.passed = countStatus(results, "passed")
    /\ report.failed = countStatus(results, "failed")
    /\ report.skipped = countStatus(results, "skipped")
    /\ report.passed + report.failed + report.skipped = report.total

\* ---------------------------------------------------------------- TestRunner claims
\* C21: every runTestAction call on a registered test action that has
\* returned, whatever the testType and whether tests passed or failed, has left
\* a feedback action (status complete, executed) under '<actionId>-feedback';
\* stated for the calls that found all four agents registered.
C21_FeedbackAlways ==
  \A r \in DOMAIN trRuns :
    (trRuns[r].state = "done" /\ trRuns[r].registered = Len(TestAgents)) =>
      /\ feedbackId(trRuns[r].id) \in DOMAIN trActions
      /\ trActions[feedbackId(trRuns[r].id)].status = "complete"
      /\ trActions[feedbackId(trRuns[r].id)].executed

\* C22: a runTestAction whose agent produced a report emits the info alert
\* first and then exactly one of the error and the success alert, the error
\* alert if and only if summary.failed > 0; when it returns, the action's status
\* is failed in the first case and complete in the second.
C22_AlertsBySummary ==
  [][\A r \in DOMAIN trRuns :
       (trRuns[r].reported /\ trRuns[r].state # "done" /\ trRuns'[r].state = "done") =>
         /\ trRuns[r].alerts = <<"info">>
         /\ trRuns'[r].alerts =
              <<"info", IF trRuns[r].failed > 0 THEN "error" ELSE "success">>
         /\ trActions'[trRuns[r].id].status =
              IF trRuns[r].failed > 0 THEN "failed" ELSE "complete"]_vars

\* one run with a failing report and one with a passing report have returned
C22_Witness ==
  \E r, q \in DOMAIN trRuns :
    /\ trRuns[r].state = "done" /\ trRuns[r].reported /\ trRuns[r].failed > 0
    /\ trRuns[q].state = "done" /\ trRuns[q].reported /\ trRuns[q].failed = 0
    /\ trRuns[r].alerts = <<"info", "error">>
    /\ trRuns[q].alerts = <<"info", "success">>

\* C30: whenever runTestAction looks up an agent, all four agents are registered.
C30_AgentsRegisteredAtLookup ==
  \A r \in DOMAIN trRuns :
    trRuns[r].state # "awaitContainer" => trRuns[r].registered = 4

\* ---------------------------------------------------------------- the test agents
\* C23: a check whose fetch of the preview URL or of the endpoint fails
\* reports skipped, not failed (and not passed).
C23_FetchFailureSkipped ==
  \A i \in DOMAIN agentRun.results :
    agentRun.results[i].fetch = "throws" => agentRun.results[i].status = "skipped"

\* C24: a report holds one result for every check of the battery, in order,
\* whatever the checks met; no check's exception cuts the battery short.
C24_BatteryComplete ==
  agentRun.state = "reported" =>
    LET battery == checks(agentRun.agent, agentRun.config)
    IN /\ Len(agentRun.results) = Len(battery)
       /\ \A i \in DOMAIN battery : agentRun.results[i].testName = battery[i].testName

\* C25: the suggestions of a report hold no entry twice.
C25_SuggestionsDistinct ==
  agentRun.state = "reported" =>
    \A i, j \in DOMAIN agentRun.suggestions :
      agentRun.suggestions[i] = agentRun.suggestions[j] => i = j

\* ---------------------------------------------------------------- ErrorMonitor
\* C26: monitorOutput returns the errors it detected in that call and appends
\* exactly them to the buffer; getErrors returns the buffer, which is the
\* concatenation of what monitorOutput returned since the last clearErrors;
\* clearErrors empties the buffer and no other method changes it.
C26_BufferAccumulates ==
  [][/\ monCall'.op = "monitorOutput" =>
          /\ errorBuffer' = errorBuffer \o monCall'.ret
          /\ \A i \in DOMAIN monCall'.ret :
               monCall'.ret[i].rawError = monCall'.output
     /\ monCall'.op = "clearErrors" => errorBuffer' = <<>>
     /\ monCall'.op \notin {"monitorOutput", "clearErrors"} => errorBuffer' = errorBuffer
     /\ monCall'.op = "getErrors" =>
          monCall'.ret = Flatten(monReturned)]_vars

\* getErrors after two monitorOutput calls that both detected errors
C26_Witness ==
  /\ monCall.op = "getErrors"
  /\ Len(monReturned) = 2
  /\ monReturned[1] # <<>> /\ monReturned[2] # <<>>
  /\ Len(monCall.ret) > Len(monReturned[2])

\* ---------------------------------------------------------------- TestFeedbackParser
\* C27: parseTestResults applied to formatForMessage(report) returns a report
\* equal to the original, whatever text the report's strings hold.
C27_RoundTrip ==
  fbParsed.done => (~fbParsed.ret.isNull /\ fbParsed.ret.value = fbReport)

\* C28: the severity is success exactly when no test failed, warning exactly
\* when failed / total is above 0 and below 30%, and error otherwise, also for
\* a report with no result.
C28_SeverityByRate ==
  fbSeverity.severity # "" =>
    fbSeverity.severity =
      IF fbSeverity.failed = 0 THEN "success"
      ELSE IF fbSeverity.failed * 10 < 3 * fbSeverity.total THEN "warning"
      ELSE "error"

\* ---------------------------------------------------------------- the build action
\* C29: a successful build returns the first of dist, build, out, output,
\* .next, public that exists under the working directory, and dist when none
\* of them exists.
C29_FirstExistingDir ==
  build.state = "returned" =>
    LET order == <<"dist", "build", "out", "output", ".next", "public">>
        found == {i \in DOMAIN order : order[i] \in build.existing}
    IN build.path = IF found = {} THEN "dist"
                    ELSE order[CHOOSE i \in found : \A j \in found : i <= j]

\* a build whose working directory holds out and public but no dist or build
C29_Witness ==
  /\ build.state = "returned"
  /\ build.existing = {"out", "public"}
  /\ build.path = "out"

\* ---------------------------------------------------------------- streamed files
\* C31: for a file action streamed with runAction(isStreaming=true) calls and
\* closed by one runAction(isStreaming=false) call: executed becomes true only
\* at the non-streaming call; a streaming execution that finishes leaves the
\* status running; the status becomes complete only when the non-streaming
\* execution finishes; that execution is the last one and writes the content
\* of the non-streaming call, which no later call replaces.
C31_StreamedFile ==
  [][\A k \in DOMAIN actions :
       actions[k].type = "file" =>
         /\ actions'[k].executed # actions[k].executed =>
              /\ lastCall' = Call("runAction", k, FALSE)
              /\ actions'[k].executed
              /\ Len(links') = Len(links) + 1
              /\ ~links'[Len(links')].isStreaming /\ links'[Len(links')].id = k
         /\ actions[k].executed =>
              /\ actions'[k].content = actions[k].content
              /\ \A n \in DOMAIN links' : links'[n].id = k => n \in DOMAIN links
         /\ \A n \in DOMAIN links :
              (links[n].id = k /\ links[n].isStreaming
                 /\ links[n].state = "exec" /\ links'[n].state # "exec") =>
                actions'[k].status \in {"running", "failed", "aborted"}
         /\ (actions'[k].status = "complete" /\ actions[k].status # "complete") =>
              \E n \in DOMAIN links :
                /\ links[n].id = k /\ ~links[n].isStreaming
                /\ links[n].state = "exec" /\ links'[n].state = "resolved"
         /\ \A n \in DOMAIN links :
              (links[n].id = k /\ ~links[n].isStreaming
                 /\ links[n].written = NotRun /\ links'[n].written # NotRun) =>
                /\ links'[n].written = actions[k].content
                /\ actions[k].executed]_vars

\* a file streamed once with one content and closed with another: both
\* executions are over, the last one wrote the closing content
C31_Witness ==
  \E k \in DOMAIN actions, n, m \in DOMAIN links :
    /\ actions[k].type = "file" /\ actions[k].status = "complete"
    /\ n < m /\ links[n].id = k /\ links[m].id = k
    /\ links[n].isStreaming /\ ~links[m].isStreaming
    /\ links[n].state = "resolved" /\ links[m].state = "resolved"
    /\ links[n].written = 0 /\ links[m].written = 1 /\ actions[k].content = 1

\* ---------------------------------------------------------------- the catch block
\* C32: when the operation of a chained shell, file, build or test action
\* raises while the action is not aborted, the status becomes failed with the
\* message 'Action failed', and an error alert is raised if and only if the
\* error is a command error; an unexpected exception raises no alert.
C32_FailedAndAlertIffCommandError ==
  [][\A n \in DOMAIN links :
       LET id == links[n].id
       IN (/\ links[n].state = "exec" /\ links'[n].state # "exec"
           /\ lastCall'.id = id /\ lastCall'.op \in {"cmderr", "err"}
           /\ actions[id].type \in {"shell", "file", "build", "test"}
           /\ ~actions[id].aborted)
          => /\ actions'[id].status = "failed"
             /\ actions'[id].error = "Action failed"
             /\ IF lastCall'.op = "cmderr"
                  THEN /\ Len(alerts'[id]) = Len(alerts[id]) + 1
                       /\ alerts'[id][Len(alerts'[id])].type = "error"
                       /\ \A k \in DOMAIN alerts \ {id} : alerts'[k] = alerts[k]
                  ELSE alerts' = alerts]_vars

\* an unexpected exception of a file action has just left it failed with no
\* alert, after a command error of a shell action raised one
C32_Witness ==
  \E k \in DOMAIN actions :
    /\ lastCall = Call("err", k, FALSE)
    /\ actions[k].type = "file" /\ actions[k].status = "failed"
    /\ ~actions[k].aborted
    /\ ErrorAlerts(k) = {}
    /\ \E j \in DOMAIN actions :
         /\ actions[j].type = "shell" /\ actions[j].status = "failed"
         /\ ErrorAlerts(j) # {}

\* ---------------------------------------------------------------- start failures
\* C33: when the process of a start action that is not aborted fails with a
\* command error, the start action becomes failed, exactly one error alert
\* carrying the error's header and output is raised, and the chain and every
\* other action stay as they are.
C33_StartFailureAlertsOnce ==
  [][\A id \in DOMAIN actions \cap ActionIds :
       LET Carrying(a) == {i \in DOMAIN a : a[i] = [type |-> "error",
                                                    title |-> "Dev Server Failed"]}
       IN (/\ procs[id].state = "running" /\ procs'[id].state = "done"
           /\ lastCall' = Call("cmderr", id, FALSE)
           /\ ~actions[id].aborted)
          => /\ actions'[id].status = "failed"
             /\ Cardinality(Carrying(alerts'[id])) = Cardinality(Carrying(alerts[id])) + 1
             /\ \A k \in DOMAIN alerts \ {id} : alerts'[k] = alerts[k]
             /\ links' = links
             /\ reactions' = reactions
             /\ DOMAIN actions' = DOMAIN actions
             /\ \A k \in DOMAIN actions \ {id} : actions'[k] = actions[k]]_vars

\* the process of a start action has just failed while the execution of
\* another action, chained behind the start action, is in progress
C33_Witness ==
  \E id \in DOMAIN actions, n \in DOMAIN links :
    /\ lastCall = Call("cmderr", id, FALSE)
    /\ actions[id].type = "start" /\ actions[id].status = "failed"
    /\ procs[id].state = "done" /\ ~procs[id].abortedAtThrow
    /\ links[n].id # id /\ links[n].state = "exec"
    /\ actions[links[n].id].status = "running"

\* ---------------------------------------------------------------- compilation errors
\* C34: when the start command resolves with a non-empty list of detected
\* errors, the compilation-error callback, or the fallback error alert when no
\* callback is set, is invoked exactly once, never both, and afterwards the
\* shell's list and the ErrorMonitor buffer are empty; with an empty list
\* neither is invoked and the ErrorMonitor buffer is unchanged.
C34_CompilationFeedbackOnce ==
  [][startRun' # <<>> =>
       LET r == startRun'[1]
       IN IF r.detected # <<>>
            THEN /\ Len(r.reports) + Len(r.alerts) = 1
                 /\ Len(r.reports) = 1 <=> r.onCompilationError
                 /\ \A i \in DOMAIN r.reports : r.reports[i].errors = r.detected
                 /\ \A i \in DOMAIN r.alerts : r.alerts[i].type = "error"
                 /\ r.lastDetectedErrors = <<>>
                 /\ errorBuffer' = <<>>
            ELSE /\ r.reports = <<>> /\ r.alerts = <<>>
                 /\ r.lastDetectedErrors = <<>>
                 /\ errorBuffer' = errorBuffer]_vars

\* a start command has just resolved with several detected errors and no
\* callback: the fallback alert was raised and the buffer cleared
C34_Witness ==
  /\ startRun # <<>>
  /\ Len(startRun[1].detected) > 1
  /\ ~startRun[1].onCompilationError
  /\ Len(startRun[1].alerts) = 1
  /\ monCall.op = "clearErrors" /\ errorBuffer = <<>>

\* ---------------------------------------------------------------- priority
\* C35: the agent delegateTask chooses does not depend on the task's priority:
\* with the same registered agents, active map and completed list,
\* findSuitableAgent returns the same agent for two tasks that differ only
\* in priority.
C35_ChoiceIgnoresPriority ==
  \A kind \in TaskKinds, priority \in Priorities \ {"medium"} :
    findSuitableAgent([id |-> 1, kind |-> kind, priority |-> priority],
                      delegations, activeTasks, completedTasks)
      = findSuitableAgent([id |-> 1, kind |-> kind, priority |-> "medium"],
                          delegations, activeTasks, completedTasks)

\* a critical fullstack task has just gone to the second agent, the first
\* one being busy, while both have a history
C35_Witness ==
  /\ mgrCall.op = "delegateTask" /\ mgrCall.kind = "fullstack"
  /\ mgrCall.priority = "critical" /\ mgrCall.agent = Agents[2]
  /\ \E id \in DOMAIN activeTasks : delegations[activeTasks[id]].agent = Agents[1]
  /\ \E p \in DOMAIN completedTasks : delegations[completedTasks[p]].agent = Agents[1]
  /\ delegations[Len(delegations)].agent = Agents[2]

\* ---------------------------------------------------------------- abort before the turn
\* C36: an action on which abort() was called before its turn in the chain
\* came is not executed: when the chain reaches its queued execution, no
\* file write, shell command or process spawn is started for it.
C36_AbortedNotExecuted ==
  [][\A n \in DOMAIN links :
       (links[n].state = "queued" /\ actions[links[n].id].aborted)
         => /\ links'[n].state \notin {"exec", "delay"}
            /\ links'[n].written = NotRun
            /\ procs'[links[n].id].state = procs[links[n].id].state]_vars

C38_EveryEntryTerminates ==
  \A k \in Keys :
    [](k \in DOMAIN actions
         => <>(k \in DOMAIN actions
                 /\ actions[k].status \in {"complete", "failed", "aborted"}))

\* ---------------------------------------------------------------- cancelled tasks
\* C39: once cancelTask has returned true for a task, its delegation stays
\* failed: when the agent's execute for that task settles later, the record
\* does not become completed and the completed list is not altered.
C39_CancelledStaysFailed ==
  [][\A i \in DOMAIN delegations :
       (delegations[i].ended /\ delegations[i].outcome = "pending")
         => /\ delegations'[i].status = "failed"
            /\ delegations'[i].outcome # "pending" => completedTasks' = completedTasks]_vars

\* ---------------------------------------------------------------- concurrency limit
\* C40: the number of delegations in the active map never exceeds
\* maxConcurrentTasks (5), whatever delegateTask and delegateTasks calls are
\* in progress at once.
C40_ActiveWithinLimit ==
  Cardinality(DOMAIN activeTasks) <= maxConcurrentTasks

====
